---- MODULE Spec2Model ----
(***************************************************************************)
(* A model of the sora2-vercel client: the storyboard editor of            *)
(* CreatePanel (segment list, target duration, edit/preview views, job     *)
(* submission), the task list of App and the polling effect of             *)
(* GalleryPanel.                                                           *)
(*                                                                         *)
(* Text is a sequence of one-character strings, so that trimming, number   *)
(* formatting and joining are computed as the code computes them.          *)
(* Segment ids (Math.random / Date.now strings in the code) are modelled   *)
(* as the least natural number not used in the list: the code only ever    *)
(* compares ids of segments of the current list for equality.              *)
(***************************************************************************)
EXTENDS Integers, Sequences, FiniteSets, TLC

VARIABLES
    model,              \* CreatePanel: selected VideoModel
    duration,           \* CreatePanel: target video duration (seconds)
    size,               \* CreatePanel: 'small' | 'large'
    prompt,             \* CreatePanel: single prompt text
    isStoryboardMode,   \* CreatePanel: storyboard mode toggle
    storyboardView,     \* CreatePanel: "edit" | "preview"
    storyboardSegments, \* CreatePanel: sequence of [id, duration, description]
    previewPrompt,      \* CreatePanel: flattened script text of the preview view
    batchCount,         \* CreatePanel: number of jobs per generate action
    isGenerating,       \* CreatePanel: a generate action is in progress
    error,              \* CreatePanel: displayed error (NoError when null)
    generation,         \* the running handleGenerate call (its closure and position)
    settings,           \* App: [baseUrl, apiKey]
    tasks,              \* App: task list, newest first
    nextTaskId,         \* remote service: next job identifier it hands out
    now,                \* the clock read by Date.now()
    timer,              \* GalleryPanel: the interval of the polling effect
    ticks,              \* GalleryPanel: the timer callbacks still running
    remote,             \* remote service: the state of each job
    savedCharacters,    \* App: saved characters, newest first
    characterUrl,       \* CreatePanel: source video URL of a character
    createdCharacter,   \* CreatePanel: the character just created, if any
    optimization,       \* the running handleOptimize call (isOptimizing while not idle)
    storage,            \* localStorage: the three persisted snapshots
    app,                \* the page: "closed", "running", or "crashed" (a render threw)
    autoGenTriggered,   \* CreatePanel: the ref autoGenTriggered.current
    autoGen,            \* CreatePanel: the handleGenerate call scheduled by Regenerate
    startTime,          \* CreatePanel: first second of the character clip
    endTime,            \* CreatePanel: last second of the character clip
    call,               \* services/apiService: one call of a client function
    lastOp              \* history: the operation that produced this state

vars == << model, duration, size, prompt, isStoryboardMode, storyboardView,
           storyboardSegments, previewPrompt, batchCount, isGenerating, error,
           generation, settings, tasks, nextTaskId, now, timer, ticks, remote,
           savedCharacters, characterUrl, createdCharacter, optimization,
           storage, app, autoGenTriggered, autoGen, startTime, endTime, call,
           lastOp >>

characterVars == << savedCharacters, characterUrl, createdCharacter >>

regenVars == << autoGenTriggered, autoGen >>

clipVars == << startTime, endTime >>

----------------------------------------------------------------------------
(* Bounds of the model *)

MaxSegments == 3
MaxEditorSegments == 2
MaxTasks == 2
MaxTicks == 2
MaxClock == 2

----------------------------------------------------------------------------
(* Values *)

SORA_2 == "sora-2"
SORA_2_PRO == "sora-2-pro"
SORA_2_CHARACTERS == "sora-2-characters"
VideoModel == {SORA_2, SORA_2_PRO, SORA_2_CHARACTERS}

VideoDuration == {10, 15, 25}

\* an optional number is the empty set (NaN, undefined) or a singleton
NaN == {}
NoError == "null"

Min(a, b) == IF a < b THEN a ELSE b
Max(a, b) == IF a > b THEN a ELSE b

----------------------------------------------------------------------------
(* Text helpers: the JavaScript string operations the code calls *)

IsWhitespace(c) == c \in {" ", "\n", "\t"}

RECURSIVE TrimStart(_)
TrimStart(s) ==
    IF s # <<>> /\ IsWhitespace(Head(s)) THEN TrimStart(Tail(s)) ELSE s

RECURSIVE TrimEnd(_)
TrimEnd(s) ==
    IF s # <<>> /\ IsWhitespace(s[Len(s)])
    THEN TrimEnd(SubSeq(s, 1, Len(s) - 1))
    ELSE s

\* String.prototype.trim
Trim(s) == TrimEnd(TrimStart(s))

DigitChars == << "0", "1", "2", "3", "4", "5", "6", "7", "8", "9" >>

IsDigit(c) == \E d \in 1..10 : DigitChars[d] = c

DigitValue(c) == (CHOOSE d \in 1..10 : DigitChars[d] = c) - 1

\* `${n}` for an integer n
RECURSIVE NumberToText(_)
NumberToText(n) ==
    IF n < 0 THEN << "-" >> \o NumberToText(0 - n)
    ELSE IF n < 10 THEN << DigitChars[n + 1] >>
    ELSE NumberToText(n \div 10) \o << DigitChars[(n % 10) + 1] >>

RECURSIVE ParseDigits(_, _, _)
ParseDigits(s, acc, seen) ==
    IF s = <<>> \/ ~IsDigit(Head(s))
    THEN (IF seen THEN {acc} ELSE NaN)
    ELSE ParseDigits(Tail(s), acc * 10 + DigitValue(Head(s)), TRUE)

\* parseInt(value): leading whitespace skipped, optional sign, then the
\* longest run of digits; NaN when there is none
ParseInt(s) ==
    LET t == TrimStart(s) IN
    IF t = <<>> THEN NaN
    ELSE IF Head(t) = "-"
         THEN { 0 - v : v \in ParseDigits(Tail(t), 0, FALSE) }
    ELSE IF Head(t) = "+" THEN ParseDigits(Tail(t), 0, FALSE)
    ELSE ParseDigits(t, 0, FALSE)

\* x || 0 for a number or NaN
OrZero(x) == IF x = NaN THEN 0 ELSE CHOOSE v \in x : TRUE

RECURSIVE Join(_, _)
Join(parts, sep) ==
    IF parts = <<>> THEN <<>>
    ELSE IF Len(parts) = 1 THEN parts[1]
    ELSE parts[1] \o sep \o Join(Tail(parts), sep)

----------------------------------------------------------------------------
(* Storyboard helpers *)

RECURSIVE SumDurations(_)
SumDurations(segs) ==
    IF segs = <<>> THEN 0 ELSE Head(segs).duration + SumDurations(Tail(segs))

\* totalSegmentDuration
totalSegmentDuration == SumDurations(storyboardSegments)

SegmentIds(segs) == { segs[i].id : i \in 1..Len(segs) }

\* a segment id not used in the list
FreshSegmentId(segs) ==
    CHOOSE n \in 1..(Len(segs) + 1) :
        /\ n \notin SegmentIds(segs)
        /\ \A m \in 1..(n - 1) : m \in SegmentIds(segs)

FilterOut(segs, id) == SelectSeq(segs, LAMBDA s : s.id # id)

\* the loop of the duration effect: replay the segments against the target
RECURSIVE ClampLoop(_, _, _, _)
ClampLoop(rest, accumulatedTime, newSegments, target) ==
    IF rest = <<>> \/ accumulatedTime >= target THEN newSegments
    ELSE LET seg == Head(rest)
             segDuration == IF accumulatedTime + seg.duration > target
                            THEN target - accumulatedTime
                            ELSE seg.duration
         IN IF segDuration > 0
            THEN ClampLoop(Tail(rest), accumulatedTime + segDuration,
                           Append(newSegments, [seg EXCEPT !.duration = segDuration]),
                           target)
            ELSE ClampLoop(Tail(rest), accumulatedTime, newSegments, target)

\* the updater returning its argument: no reconciliation
ClampSegments_Keep(prevSegments, target) == prevSegments

\* the updater passed to setStoryboardSegments by the duration effect
ClampSegments(prevSegments, target) ==
    LET newSegments == ClampLoop(prevSegments, 0, <<>>, target) IN
    IF Len(newSegments) = 0
    THEN << [id |-> FreshSegmentId(prevSegments), duration |-> target,
            description |-> <<>>] >>
    ELSE newSegments

\* useEffect[model, duration]: the duration the model allows
ModelConstraintDuration(m, d) ==
    IF m = SORA_2 \/ m = SORA_2_CHARACTERS THEN (IF d = 25 THEN 15 ELSE d)
    ELSE IF m = SORA_2_PRO THEN (IF d = 10 THEN 15 ELSE d)
    ELSE d

\* useEffect[model, duration]: the size the model allows
ModelConstraintSize(m, d, s) ==
    IF m = SORA_2 \/ m = SORA_2_CHARACTERS THEN "small"
    ELSE IF m = SORA_2_PRO
         THEN (IF d = 25 THEN "small" ELSE IF d = 15 THEN "large" ELSE s)
    ELSE s

\* the renders and effects with the clamp effect depending on [duration]
\* only: switching the mode on does not run it
RenderAndRunEffects_DurationOnly(m, d, sb, view, segs) ==
    LET modelEffectRuns == m # model \/ d # duration
        d2 == IF modelEffectRuns THEN ModelConstraintDuration(m, d) ELSE d
        s1 == IF modelEffectRuns THEN ModelConstraintSize(m, d, size) ELSE size
        s2 == IF d2 # d THEN ModelConstraintSize(m, d2, s1) ELSE s1
        modeChanged == sb # isStoryboardMode
        view1 == IF modeChanged /\ ~sb THEN "edit" ELSE view
        segs1 == IF d # duration /\ sb THEN ClampSegments(segs, d) ELSE segs
        segs2 == IF d2 # d /\ sb THEN ClampSegments(segs1, d2) ELSE segs1
    IN /\ model' = m
       /\ duration' = d2
       /\ size' = s2
       /\ isStoryboardMode' = sb
       /\ storyboardView' = view1
       /\ storyboardSegments' = segs2

\* One event handler has set model, duration, mode, view and segments to the
\* given values; React renders and runs the effects whose dependencies
\* changed, renders again when an effect set state, until nothing changes.
RenderAndRunEffects(m, d, sb, view, segs) ==
    LET modelEffectRuns == m # model \/ d # duration
        d2 == IF modelEffectRuns THEN ModelConstraintDuration(m, d) ELSE d
        s1 == IF modelEffectRuns THEN ModelConstraintSize(m, d, size) ELSE size
        s2 == IF d2 # d THEN ModelConstraintSize(m, d2, s1) ELSE s1
        modeChanged == sb # isStoryboardMode
        view1 == IF modeChanged /\ ~sb THEN "edit" ELSE view
        segs1 == IF (d # duration \/ modeChanged) /\ sb
                 THEN ClampSegments(segs, d) ELSE segs
        segs2 == IF d2 # d /\ sb THEN ClampSegments(segs1, d2) ELSE segs1
    IN /\ model' = m
       /\ duration' = d2
       /\ size' = s2
       /\ isStoryboardMode' = sb
       /\ storyboardView' = view1
       /\ storyboardSegments' = segs2

----------------------------------------------------------------------------
(* Inputs the user can type *)

\* texts typed into a segment's duration field
DurationInputs == { <<>>, << "-", "1" >>, << "3", "0" >> }

\* texts typed into a segment's description field
DescriptionInputs == { << "A" >> }

\* texts typed into the preview box
PreviewInputs == { << " " >>, << "X" >>, << "X", "\n", "\n", "Y", "\n", "Z", "\n" >> }

\* texts typed into the source URL box of the character panel
CharacterUrlInputs == { <<>>, << "U" >> }

\* texts typed into the batch count field
BatchInputs == { <<>>, << "2" >> }

\* texts typed into the prompt box
PromptInputs == { <<>>, << "P" >> }

\* lastOp: the event of the last step that a property below speaks about, and
\* whether its case of interest happened:
\*   "targetChange"             the target duration fell below the segment sum
\*   "updateSegmentDuration"    the typed value was clamped
\*   "addSegment"               the addition was rejected
\*   "handlePreviewAndOptimize" the preview was built
\*   "createVideoTask"          a job-creation request went out in storyboard mode
\*   "queryVideoTask"           a status query went out for a task whose local
\*                              status is completed or failed
\*   "toggleStoryboardMode"     the mode was switched on over a segment sum
\*                              above the target
\*   "regenerate"               (no case)
\*   "setStartTime"             the effect on [startTime] reset the end time
\*   "setEndTime"               (no case)
\*   "autoGenerate"             the scheduled call sent a creation request while
\*                              the requests of another call were outstanding
\* rejected: the step was the catch block of a polling tick (the status query
\* before it failed)
\* updated: the step called onUpdateTask (setTasks ran with a new list, so
\* the polling effect cleared its interval and set a new one)
Op(name, flag) ==
    [op |-> name, flag |-> flag, rejected |-> FALSE, updated |-> FALSE]

NoOp == Op("none", FALSE)

\* the storyboard editor is rendered: the prompt area is hidden for the
\* character model, the segment list is shown in the edit view only
EditViewShown ==
    model # SORA_2_CHARACTERS /\ isStoryboardMode /\ storyboardView = "edit"

PreviewViewShown ==
    model # SORA_2_CHARACTERS /\ isStoryboardMode /\ storyboardView = "preview"

\* a duration button is disabled for the model
DurationDisabled(m, d) ==
    (m = SORA_2 /\ d = 25) \/ (m = SORA_2_PRO /\ d = 10)

----------------------------------------------------------------------------
(* CreatePanel: event handlers of the storyboard editor *)

\* the effect on [model, characterUrl, startTime, endTime], run because the
\* model or the URL changed: the character just created is cleared unless
\* the character model is selected
ClearedCharacter(m) ==
    IF m # model /\ m # SORA_2_CHARACTERS THEN {} ELSE createdCharacter

\* setModel, from the three model buttons
SetModel(m) ==
    /\ RenderAndRunEffects(m, duration, isStoryboardMode, storyboardView,
                           storyboardSegments)
    /\ createdCharacter' = ClearedCharacter(m)
    /\ lastOp' = Op("targetChange",
                    isStoryboardMode /\ duration' < totalSegmentDuration)
    /\ UNCHANGED << prompt, previewPrompt, batchCount, isGenerating, error,
                    generation, settings, savedCharacters, characterUrl,
                    optimization, app, call, regenVars, tasks, storage, nextTaskId, now,
                    timer, ticks, remote, clipVars >>

\* setDuration, from the duration buttons
SetDuration(d) ==
    /\ model # SORA_2_CHARACTERS
    /\ ~DurationDisabled(model, d)
    /\ RenderAndRunEffects(model, d, isStoryboardMode, storyboardView,
                           storyboardSegments)
    /\ lastOp' = Op("targetChange",
                    isStoryboardMode /\ duration' < totalSegmentDuration)
    /\ UNCHANGED << prompt, previewPrompt, batchCount, isGenerating, error,
                    generation, settings, characterVars, optimization, app, call, regenVars, tasks, storage, nextTaskId, now,
                    timer, ticks, remote, clipVars >>

\* setIsStoryboardMode(!isStoryboardMode)
ToggleStoryboardMode ==
    /\ model # SORA_2_CHARACTERS
    /\ RenderAndRunEffects(model, duration, ~isStoryboardMode, storyboardView,
                           storyboardSegments)
    /\ lastOp' = Op("toggleStoryboardMode",
                    isStoryboardMode' /\ duration < totalSegmentDuration)
    /\ UNCHANGED << prompt, previewPrompt, batchCount, isGenerating, error,
                    generation, settings, characterVars, optimization, app, call, regenVars, tasks, storage, nextTaskId, now,
                    timer, ticks, remote, clipVars >>

\* the typed value stored as it is
ClampDuration_NoClamp(numVal, maxAllowed) == numVal

\* the clamp of updateSegment
ClampDuration(numVal, maxAllowed) == Min(numVal, maxAllowed)

\* the segments updateSegment stores for the 'duration' field
UpdatedDuration(segs, target, id, value) ==
    LET numVal == Max(0, OrZero(ParseInt(value)))
        otherSegmentsTotal == SumDurations(FilterOut(segs, id))
        maxAllowed == target - otherSegmentsTotal
        finalVal == ClampDuration(numVal, maxAllowed)
    IN [i \in 1..Len(segs) |->
            IF segs[i].id = id THEN [segs[i] EXCEPT !.duration = finalVal]
            ELSE segs[i]]

\* updateSegment(id, 'duration', value)
UpdateSegmentDuration(id, value) ==
    /\ EditViewShown
    /\ id \in SegmentIds(storyboardSegments)
    /\ storyboardSegments' =
           UpdatedDuration(storyboardSegments, duration, id, value)
    /\ lastOp' = Op("updateSegmentDuration",
                    Max(0, OrZero(ParseInt(value)))
                        > duration - SumDurations(FilterOut(storyboardSegments, id)))
    /\ UNCHANGED << model, duration, size, prompt, isStoryboardMode,
                    storyboardView, previewPrompt, batchCount, isGenerating,
                    error, generation, settings, characterVars, optimization, app, call, regenVars, tasks, storage, nextTaskId, now,
                    timer, ticks, remote, clipVars >>

\* updateSegment(id, 'description', value)
UpdateSegmentDescription(id, value) ==
    /\ EditViewShown
    /\ id \in SegmentIds(storyboardSegments)
    /\ storyboardSegments' =
           [i \in 1..Len(storyboardSegments) |->
               IF storyboardSegments[i].id = id
               THEN [storyboardSegments[i] EXCEPT !.description = value]
               ELSE storyboardSegments[i]]
    /\ lastOp' = NoOp
    /\ UNCHANGED << model, duration, size, prompt, isStoryboardMode,
                    storyboardView, previewPrompt, batchCount, isGenerating,
                    error, generation, settings, characterVars, optimization, app, call, regenVars, tasks, storage, nextTaskId, now,
                    timer, ticks, remote, clipVars >>

\* the default duration without the cap at what is left of the target
NextDuration_AlwaysFive(target, total) == 5

\* the default duration of an added segment
NextDuration(target, total) ==
    LET remaining == Max(1, target - total) IN Min(5, remaining)

\* addSegment rejects the addition
AddSegmentRejected(total, target) == total >= target

\* addSegment
AddSegment ==
    /\ EditViewShown
    /\ IF AddSegmentRejected(totalSegmentDuration, duration)
       THEN /\ error' = "segments-full"
            /\ UNCHANGED storyboardSegments
            /\ lastOp' = Op("addSegment", TRUE)
       ELSE /\ Len(storyboardSegments) < MaxSegments
            /\ storyboardSegments' =
                   Append(storyboardSegments,
                          [id |-> FreshSegmentId(storyboardSegments),
                           duration |-> NextDuration(duration, totalSegmentDuration),
                           description |-> <<>>])
            /\ UNCHANGED error
            /\ lastOp' = Op("addSegment", FALSE)
    /\ UNCHANGED << model, duration, size, prompt, isStoryboardMode,
                    storyboardView, previewPrompt, batchCount, isGenerating,
                    generation, settings, characterVars, optimization, app, call, regenVars, tasks, storage, nextTaskId, now,
                    timer, ticks, remote, clipVars >>

\* removeSegment(id)
RemoveSegment(id) ==
    /\ EditViewShown
    /\ id \in SegmentIds(storyboardSegments)
    /\ Len(storyboardSegments) > 1
    /\ storyboardSegments' = FilterOut(storyboardSegments, id)
    /\ lastOp' = NoOp
    /\ UNCHANGED << model, duration, size, prompt, isStoryboardMode,
                    storyboardView, previewPrompt, batchCount, isGenerating,
                    error, generation, settings, characterVars, optimization, app, call, regenVars, tasks, storage, nextTaskId, now,
                    timer, ticks, remote, clipVars >>

\* some segment has a blank description
SomeDescriptionBlank(segs) ==
    \E i \in 1..Len(segs) : Trim(segs[i].description) = <<>>

\* `[${start}s-${end}s] ${seg.description}`
ScriptPart(start, end, description) ==
    << "[" >> \o NumberToText(start) \o << "s", "-" >> \o NumberToText(end)
        \o << "s", "]", " " >> \o description

\* the map without `currentTime = end`
RECURSIVE ScriptParts_NoAdvance(_, _)
ScriptParts_NoAdvance(segs, currentTime) ==
    IF segs = <<>> THEN <<>>
    ELSE LET start == currentTime
             end == currentTime + Head(segs).duration
         IN << ScriptPart(start, end, Head(segs).description) >>
                \o ScriptParts_NoAdvance(Tail(segs), currentTime)

\* storyboardSegments.map with the running currentTime
RECURSIVE ScriptParts(_, _)
ScriptParts(segs, currentTime) ==
    IF segs = <<>> THEN <<>>
    ELSE LET start == currentTime
             end == currentTime + Head(segs).duration
         IN << ScriptPart(start, end, Head(segs).description) >>
                \o ScriptParts(Tail(segs), end)

\* the script handlePreviewAndOptimize puts in the preview box
PreviewScript(segs) == Join(ScriptParts(segs, 0), << "\n", "\n" >>)

\* the validation without the test of the descriptions
PreviewAllowed_SumOnly(segs, target) == SumDurations(segs) = target

\* the validation of handlePreviewAndOptimize
PreviewAllowed(segs, target) ==
    SumDurations(segs) = target /\ ~SomeDescriptionBlank(segs)

\* handlePreviewAndOptimize
HandlePreviewAndOptimize ==
    /\ EditViewShown
    /\ IF ~PreviewAllowed(storyboardSegments, duration)
       THEN /\ error' = IF totalSegmentDuration # duration
                        THEN "sum-mismatch" ELSE "description-missing"
            /\ UNCHANGED << previewPrompt, storyboardView >>
            /\ lastOp' = Op("handlePreviewAndOptimize", FALSE)
       ELSE /\ previewPrompt' = PreviewScript(storyboardSegments)
            /\ error' = NoError
            /\ storyboardView' = "preview"
            /\ lastOp' = Op("handlePreviewAndOptimize", TRUE)
    /\ UNCHANGED << model, duration, size, prompt, isStoryboardMode,
                    storyboardSegments, batchCount, isGenerating, generation,
                    settings, characterVars, optimization, app, call, regenVars, tasks, storage, nextTaskId, now,
                    timer, ticks, remote, clipVars >>

\* setStoryboardView('edit'), the "back to edit" button of the preview
BackToEdit ==
    /\ PreviewViewShown
    /\ storyboardView' = "edit"
    /\ lastOp' = NoOp
    /\ UNCHANGED << model, duration, size, prompt, isStoryboardMode,
                    storyboardSegments, previewPrompt, batchCount, isGenerating,
                    error, generation, settings, characterVars, optimization, app, call, regenVars, tasks, storage, nextTaskId, now,
                    timer, ticks, remote, clipVars >>

\* setPreviewPrompt(e.target.value), typing in the preview box
EditPreview(text) ==
    /\ PreviewViewShown
    /\ previewPrompt' = text
    /\ lastOp' = NoOp
    /\ UNCHANGED << model, duration, size, prompt, isStoryboardMode,
                    storyboardView, storyboardSegments, batchCount,
                    isGenerating, error, generation, settings, characterVars, optimization, app, call, regenVars, tasks, storage,
                    nextTaskId, now,
                    timer, ticks, remote, clipVars >>

\* setPrompt(e.target.value), typing in the prompt box
SetPrompt(text) ==
    /\ model # SORA_2_CHARACTERS
    /\ ~isStoryboardMode
    /\ prompt' = text
    /\ lastOp' = NoOp
    /\ UNCHANGED << model, duration, size, isStoryboardMode, storyboardView,
                    storyboardSegments, previewPrompt, batchCount,
                    isGenerating, error, generation, settings, characterVars, optimization, app, call, regenVars, tasks, storage,
                    nextTaskId, now,
                    timer, ticks, remote, clipVars >>

----------------------------------------------------------------------------
(* App: the task list store; GalleryPanel: the polling effect *)

TerminalStatus == { "completed", "failed" }

\* a filter that gives up tasks once they are processing
PendingTasks_OnlyPending(ts) ==
    SelectSeq(ts, LAMBDA t : t.status = "pending")

\* tasks.filter(t => t.status === 'pending' || t.status === 'processing')
PendingTasks(ts) ==
    SelectSeq(ts, LAMBDA t : t.status = "pending" \/ t.status = "processing")

NoTimer == [active |-> FALSE, pendingTasks |-> <<>>]

\* an effect whose cleanup is missing: with nothing to poll the interval set
\* before stays
PollingEffect_NoCleanup(ts) ==
    IF Len(PendingTasks(ts)) = 0 THEN timer
    ELSE [active |-> TRUE, pendingTasks |-> PendingTasks(ts)]

\* the polling effect runs for the task list ts: the previous interval is
\* cleared, a new one is set when some task is pending
PollingEffect(ts) ==
    IF Len(PendingTasks(ts)) = 0 THEN NoTimer
    ELSE [active |-> TRUE, pendingTasks |-> PendingTasks(ts)]

\* an update that adds the record when the list has none with its id
HandleUpdateTask_Upsert(prev, updatedTask) ==
    IF \E i \in 1..Len(prev) : prev[i].id = updatedTask.id
    THEN [i \in 1..Len(prev) |->
            IF prev[i].id = updatedTask.id THEN updatedTask ELSE prev[i]]
    ELSE << updatedTask >> \o prev

\* App.handleUpdateTask: the updater passed to setTasks
HandleUpdateTask(prev, updatedTask) ==
    [i \in 1..Len(prev) |->
        IF prev[i].id = updatedTask.id THEN updatedTask ELSE prev[i]]

\* the local record with the given id is terminal
LocallyTerminal(ts, id) ==
    \E i \in 1..Len(ts) : ts[i].id = id /\ ts[i].status \in TerminalStatus

----------------------------------------------------------------------------
(* services/apiService: what fetch produces and how errors are translated.

   An Error object is [name, message].  A response is [status, body]; its
   body is [text, doc], doc the set holding the document JSON.parse returns
   for text (empty when text is not JSON).  A document lists the members the
   client reads, each the set holding its value (empty when it is missing):
   error_message for error.message, message, content for
   choices[0].message.content, id.  The messages shown to the user are
   Chinese texts in the code; here they are given in English. *)

ErrorOf(name, message) == [name |-> name, message |-> message]

CorsHint == "network request failed: check the connection, the API address or the CORS settings"

NotFoundHint == "API path error (404): check the API address"

\* `${response.status}`
StatusText(status) ==
    CASE status = 200 -> "200"
      [] status = 401 -> "401"
      [] status = 404 -> "404"
      [] status = 500 -> "500"

\* response.ok
ResponseOk(response) == response.status \in 200..299

NoDoc == {}

Doc(error_message, message, content, id) ==
    [error_message |-> error_message, message |-> message,
     content |-> content, id |-> id]

Body(text, doc) == [text |-> text, doc |-> doc]

HttpResponse(status, body) == [status |-> status, body |-> body]

\* fetch rejected with the given Error
Rejected(err) ==
    [kind |-> "rejected", error |-> err,
     response |-> HttpResponse(200, Body("", NoDoc))]

\* fetch resolved with the given response
Responded(response) ==
    [kind |-> "responded", error |-> ErrorOf("", ""), response |-> response]

\* the message handleFetchError builds for a non-success response other than
\* 404 (the bodies drawn here are shorter than the 100 characters kept by
\* substring(0, 100))
RequestFailedMessage(response) ==
    LET errorText == response.body.text
        errorMessage == "Request failed: " \o StatusText(response.status)
    IN IF response.body.doc = NoDoc
       THEN (IF errorText # "" THEN errorMessage \o " - " \o errorText
             ELSE errorMessage)
       ELSE LET errorJson == CHOOSE d \in response.body.doc : TRUE IN
            IF errorJson.error_message # {} /\ errorJson.error_message # {""}
            THEN CHOOSE m \in errorJson.error_message : TRUE
            ELSE IF errorJson.message # {} /\ errorJson.message # {""}
            THEN CHOOSE m \in errorJson.message : TRUE
            ELSE errorMessage \o " - " \o errorText

\* handleFetchError(error, response): the Error it throws (it always throws).
\* caught and response are the set holding the argument (the parameters
\* error and response of the code), empty for null/undefined.
HandleFetchError(caught, response) ==
    IF caught # {} /\ (\E e \in caught :
                         e.name = "TypeError" /\ e.message = "Failed to fetch")
    THEN ErrorOf("Error", CorsHint)
    ELSE IF response # {} /\ (\E r \in response : ~ResponseOk(r))
    THEN LET r == CHOOSE r \in response : TRUE IN
         IF r.status = 404 THEN ErrorOf("Error", NotFoundHint)
         ELSE ErrorOf("Error", RequestFailedMessage(r))
    ELSE IF caught # {} THEN CHOOSE e \in caught : TRUE
    ELSE ErrorOf("Error", "Unknown Error Occurred")

\* the two ways an async function of the client ends
Return(value) == [kind |-> "return", value |-> value, error |-> ErrorOf("", "")]

Throw(err) == [kind |-> "throw", value |-> <<>>, error |-> err]

\* response.json() rejects when the body is not JSON
JsonSyntaxError == ErrorOf("SyntaxError", "Unexpected token in JSON")

\* the body of `try { fetch; if (!response.ok) await handleFetchError(null,
\* response); return await response.json() }`: the Error thrown inside the
\* try block, as a set (empty when the block returns)
ThrownInTry(outcome) ==
    IF outcome.kind = "rejected" THEN {outcome.error}
    ELSE IF ~ResponseOk(outcome.response)
    THEN {HandleFetchError({}, {outcome.response})}
    ELSE IF outcome.response.body.doc = NoDoc THEN {JsonSyntaxError}
    ELSE {}

\* optimizePrompt(prompt, settings, mode) when fetch ends with the given
\* outcome; the mode only selects the system message of the request
OptimizePrompt(promptText, mode, outcome) ==
    IF promptText = <<>> THEN Return(<<>>)
    ELSE IF ThrownInTry(outcome) # {}
    THEN Throw(HandleFetchError(ThrownInTry(outcome), {}))
    ELSE LET data == CHOOSE d \in outcome.response.body.doc : TRUE IN
         Return(IF data.content # {} /\ data.content # {<<>>}
                THEN CHOOSE c \in data.content : TRUE ELSE promptText)

\* createVideoTask(request, settings) when fetch ends with the given outcome:
\* the catch block passes what was thrown to handleFetchError, which throws
CreateVideoTask(outcome) ==
    IF ThrownInTry(outcome) # {}
    THEN Throw(HandleFetchError(ThrownInTry(outcome), {}))
    ELSE Return(CHOOSE d \in outcome.response.body.doc : TRUE)

\* createCharacter(request, settings)
CreateCharacter(outcome) ==
    IF ThrownInTry(outcome) # {}
    THEN Throw(HandleFetchError(ThrownInTry(outcome), {}))
    ELSE Return(CHOOSE d \in outcome.response.body.doc : TRUE)

\* queryVideoTask(taskId, settings): the catch block logs and throws what
\* it caught
QueryVideoTask(outcome) ==
    IF ThrownInTry(outcome) # {}
    THEN Throw(CHOOSE e \in ThrownInTry(outcome) : TRUE)
    ELSE Return(CHOOSE d \in outcome.response.body.doc : TRUE)

\* the messages of fetch's TypeError on a network failure: Chromium's, and
\* Firefox's (the one queryVideoTask looks for with includes('NetworkError'))
NetworkFailures ==
    { ErrorOf("TypeError", "Failed to fetch"),
      ErrorOf("TypeError", "NetworkError when attempting to fetch resource.") }

\* bodies of non-success responses: error.message, a top-level message, a
\* JSON body with neither, a body that is not JSON, an empty body
ErrorBodies ==
    { Body("{error:{message}}", {Doc({"quota exceeded"}, {}, {}, {})}),
      Body("{message}", {Doc({}, {"invalid token"}, {}, {})}),
      Body("{}", {Doc({}, {}, {}, {})}),
      Body("Bad Gateway", NoDoc),
      Body("", NoDoc) }

ErrorStatuses == { 401, 404, 500 }

\* bodies of success responses: not JSON, JSON without the member read,
\* JSON with rewritten text, JSON with a job id
SuccessBodies ==
    { Body("<html>", NoDoc),
      Body("{}", {Doc({}, {}, {}, {})}),
      Body("{choices}", {Doc({}, {}, {<< "O" >>}, {})}),
      Body("{id}", {Doc({}, {}, {}, {1})}) }

FetchOutcomes ==
    { Rejected(e) : e \in NetworkFailures }
    \cup { Responded(HttpResponse(s, b)) : s \in ErrorStatuses, b \in ErrorBodies }
    \cup { Responded(HttpResponse(200, b)) : b \in SuccessBodies }

----------------------------------------------------------------------------
(* App: the three snapshots in localStorage.

   A stored item is [kind, doc]: kind "absent" when getItem returns null,
   "invalid" for a text JSON.parse rejects, "null" for the JSON text `null`
   (a text JSON.parse accepts, of another shape than the record), "json" for
   the text JSON.stringify wrote, whose document is doc.  A JSON object is a
   function from its member names to their values; members whose value is
   undefined are not written. *)

DefaultSettings == [baseUrl |-> "https://www.vivaapi.cn", apiKey |-> ""]

OptionalTaskFields ==
    { "completedAt", "videoUrl", "thumbnailUrl", "progress", "failureReason" }

OptionalCharacterFields == { "profile_desc" }

\* a serialisation that writes the required members only
StringifyObject_RequiredOnly(obj, optional) ==
    [k \in DOMAIN obj \ optional |-> obj[k]]

\* JSON.stringify of an object whose optional members are the given ones
StringifyObject(obj, optional) ==
    [k \in { f \in DOMAIN obj : f \notin optional \/ obj[f] # {} } |->
        IF k \in optional THEN CHOOSE v \in obj[k] : TRUE ELSE obj[k]]

\* the object JSON.parse returns, read through its optional members
ParseObject(doc, optional) ==
    [k \in DOMAIN doc \cup optional |->
        IF k \in optional
        THEN (IF k \in DOMAIN doc THEN {doc[k]} ELSE {})
        ELSE doc[k]]

\* localStorage.setItem('viva_settings', JSON.stringify(settings))
SettingsItem(s) == [kind |-> "json", doc |-> s]

\* localStorage.setItem('viva_tasks', JSON.stringify(tasks))
TasksItem(ts) ==
    [kind |-> "json",
     doc |-> [i \in 1..Len(ts) |-> StringifyObject(ts[i], OptionalTaskFields)]]

\* localStorage.setItem('viva_characters', JSON.stringify(savedCharacters))
CharactersItem(cs) ==
    [kind |-> "json",
     doc |-> [i \in 1..Len(cs) |-> StringifyObject(cs[i], OptionalCharacterFields)]]

\* the three persistence effects of App, for the given in-memory values
Persisted(s, ts, cs) ==
    [viva_settings |-> SettingsItem(s),
     viva_tasks |-> TasksItem(ts),
     viva_characters |-> CharactersItem(cs)]

\* the useState initialisers of App: the set holding the initial value, the
\* empty set when JSON.parse returns null
InitialSettings(saved) ==
    IF saved.kind = "absent" \/ saved.kind = "invalid" THEN {DefaultSettings}
    ELSE IF saved.kind = "null" THEN {}
    ELSE {saved.doc}

InitialTasks(saved) ==
    IF saved.kind = "absent" \/ saved.kind = "invalid" THEN {<<>>}
    ELSE IF saved.kind = "null" THEN {}
    ELSE {[i \in 1..Len(saved.doc) |-> ParseObject(saved.doc[i], OptionalTaskFields)]}

InitialCharacters(saved) ==
    IF saved.kind = "absent" \/ saved.kind = "invalid" THEN {<<>>}
    ELSE IF saved.kind = "null" THEN {}
    ELSE {[i \in 1..Len(saved.doc) |->
              ParseObject(saved.doc[i], OptionalCharacterFields)]}

----------------------------------------------------------------------------
(* CreatePanel.handleGenerate (video generation) and App.handleTasksCreated *)

Idle == [phase |-> "idle"]

\* no handleGenerate call is scheduled by the initialState effect
NoAutoGen == [phase |-> "none"]

\* `[${start}s-${end}s]: ${seg.description}`, the part built from the edit view
PromptPart(start, end, description) ==
    << "[" >> \o NumberToText(start) \o << "s", "-" >> \o NumberToText(end)
        \o << "s", "]", ":", " " >> \o description

RECURSIVE PromptParts(_, _)
PromptParts(segs, currentTime) ==
    IF segs = <<>> THEN <<>>
    ELSE LET start == currentTime
             end == currentTime + Head(segs).duration
         IN << PromptPart(start, end, Head(segs).description) >>
                \o PromptParts(Tail(segs), end)

\* text.replace(/\n\n/g, '; ')
RECURSIVE ReplaceBlankLines(_)
ReplaceBlankLines(text) ==
    IF Len(text) >= 2 /\ text[1] = "\n" /\ text[2] = "\n"
    THEN << ";", " " >> \o ReplaceBlankLines(SubSeq(text, 3, Len(text)))
    ELSE IF text = <<>> THEN <<>>
    ELSE << Head(text) >> \o ReplaceBlankLines(Tail(text))

\* text.replace(/\n/g, ' ')
ReplaceLineBreaks(text) ==
    [i \in 1..Len(text) |-> IF text[i] = "\n" THEN " " ELSE text[i]]

\* the validation of handleGenerate for video generation: the error it sets,
\* or NoError when the request goes out
GenerateError ==
    IF model = SORA_2_CHARACTERS
    THEN (IF characterUrl = <<>> THEN "character-url-missing" ELSE NoError)
    ELSE IF isStoryboardMode
    THEN IF storyboardView = "preview"
         THEN (IF Trim(previewPrompt) = <<>> THEN "preview-empty" ELSE NoError)
         ELSE IF totalSegmentDuration # duration THEN "sum-mismatch"
         ELSE IF SomeDescriptionBlank(storyboardSegments) THEN "description-missing"
         ELSE NoError
    ELSE IF Trim(prompt) = <<>> THEN "prompt-missing" ELSE NoError

\* a currentPrompt that is always built from the segment list in storyboard mode
CurrentPrompt_FromSegments ==
    IF isStoryboardMode
    THEN Join(PromptParts(storyboardSegments, 0), << ";", " " >>)
    ELSE prompt

\* currentPrompt of handleGenerate
CurrentPrompt ==
    IF isStoryboardMode
    THEN IF storyboardView = "preview"
         THEN ReplaceLineBreaks(ReplaceBlankLines(previewPrompt))
         ELSE Join(PromptParts(storyboardSegments, 0), << ";", " " >>)
    ELSE prompt

\* the CreateVideoRequest built by handleGenerate
VideoRequest ==
    [model |-> model, prompt |-> Trim(CurrentPrompt), duration |-> duration,
     size |-> size]

\* App.handleTasksCreated: the new task list
TasksCreated(newIds, taskPrompt, taskModel) ==
    [i \in 1..Len(newIds) |->
        [id |-> newIds[i], status |-> "pending", prompt |-> taskPrompt,
         model |-> taskModel, createdAt |-> now, completedAt |-> {},
         videoUrl |-> {}, thumbnailUrl |-> {}, progress |-> {},
         failureReason |-> {}]] \o tasks

\* the generate button is rendered and enabled
GenerateButton ==
    /\ createdCharacter = {} \/ model # SORA_2_CHARACTERS
    /\ ~isGenerating

\* handleGenerate, up to its first await: the click on the generate button.
\* issued counts the job-creation requests the call has sent.
HandleGenerate ==
    /\ GenerateButton
    /\ generation = Idle
    /\ IF settings.apiKey = "" \/ isGenerating
       THEN /\ lastOp' = NoOp
            /\ UNCHANGED << isGenerating, error, generation, createdCharacter >>
       ELSE IF GenerateError # NoError
       THEN /\ error' = GenerateError
            /\ lastOp' = NoOp
            /\ UNCHANGED << isGenerating, generation, createdCharacter >>
       ELSE /\ isGenerating' = TRUE
            /\ error' = NoError
            /\ createdCharacter' = {}
            /\ IF model = SORA_2_CHARACTERS
               THEN /\ generation' = [phase |-> "createCharacter",
                                      url |-> Trim(characterUrl),
                                      timestamps |-> << startTime, endTime >>]
                    /\ lastOp' = NoOp
               ELSE /\ generation' = [phase |-> "createVideoTask", i |-> 0,
                                      batchCount |-> batchCount,
                                      request |-> VideoRequest,
                                      currentPrompt |-> CurrentPrompt,
                                      taskIds |-> <<>>, issued |-> 1]
                    /\ lastOp' = Op("createVideoTask", isStoryboardMode)
    /\ UNCHANGED << model, duration, size, prompt, isStoryboardMode,
                    storyboardView, storyboardSegments, previewPrompt,
                    batchCount, settings, savedCharacters, characterUrl,
                    optimization, app, call, regenVars, tasks, storage, nextTaskId, now,
                    timer, ticks, remote, clipVars >>

\* a finally block that leaves the panel generating
GenerateFinally_StillGenerating ==
    /\ isGenerating' = isGenerating
    /\ generation' = Idle
    /\ autoGenTriggered' = FALSE

\* the finally block of handleGenerate
GenerateFinally ==
    /\ isGenerating' = FALSE
    /\ generation' = Idle
    /\ autoGenTriggered' = FALSE

\* a batch loop that never waits for a further request
DelayNeeded_Never(i, n) == FALSE

\* `if (i < batchCount - 1)`: a further request follows, after the delay
DelayNeeded(i, n) == i < n - 1

\* createVideoTask resolves with a new job id: the loop body after the await
CreateVideoTaskResolved ==
    /\ generation.phase = "createVideoTask"
    /\ nextTaskId <= MaxTasks
    /\ nextTaskId' = nextTaskId + 1
    /\ LET taskIds == Append(generation.taskIds, nextTaskId) IN
       IF DelayNeeded(generation.i, generation.batchCount)
       THEN /\ generation' = [generation EXCEPT !.phase = "delay",
                                                !.taskIds = taskIds]
            /\ UNCHANGED << tasks, storage, isGenerating, timer, autoGenTriggered >>
       ELSE /\ tasks' = TasksCreated(taskIds, generation.currentPrompt,
                                     generation.request.model)
            /\ storage' = [storage EXCEPT !.viva_tasks = TasksItem(tasks')]
            /\ timer' = PollingEffect(tasks')
            /\ GenerateFinally
    /\ lastOp' = NoOp
    /\ UNCHANGED << model, duration, size, prompt, isStoryboardMode,
                    storyboardView, storyboardSegments, previewPrompt,
                    batchCount, error, settings, characterVars, optimization, app, call, autoGen, now, ticks, remote, clipVars >>

\* the 800 ms delay between two requests of a batch has elapsed
NextBatchRequest ==
    /\ generation.phase = "delay"
    /\ generation' = [generation EXCEPT !.phase = "createVideoTask",
                                        !.i = generation.i + 1,
                                        !.issued = generation.issued + 1]
    /\ lastOp' = Op("createVideoTask", isStoryboardMode)
    /\ UNCHANGED << model, duration, size, prompt, isStoryboardMode,
                    storyboardView, storyboardSegments, previewPrompt,
                    batchCount, isGenerating, error, settings, characterVars, optimization, app, call, regenVars, tasks, storage,
                    nextTaskId, now,
                    timer, ticks, remote, clipVars >>

\* the outcomes of fetch with which createVideoTask and createCharacter throw
CreateFailures == { o \in FetchOutcomes : CreateVideoTask(o).kind = "throw" }

\* setError(err.message || fallback)
ErrorMessage(err, fallback) ==
    IF err.message # "" THEN err.message ELSE fallback

\* createVideoTask throws: the catch and finally blocks
CreateVideoTaskRejected(outcome) ==
    /\ generation.phase = "createVideoTask"
    /\ outcome \in CreateFailures
    /\ error' = ErrorMessage(CreateVideoTask(outcome).error, "generate-failed")
    /\ GenerateFinally
    /\ lastOp' = NoOp
    /\ UNCHANGED << model, duration, size, prompt, isStoryboardMode,
                    storyboardView, storyboardSegments, previewPrompt,
                    batchCount, settings, characterVars, optimization, app, call, autoGen, tasks, storage, nextTaskId, now,
                    timer, ticks, remote, clipVars >>

\* setCharacterUrl(e.target.value), typing in the source URL box
SetCharacterUrl(text) ==
    /\ model = SORA_2_CHARACTERS
    /\ characterUrl' = text
    /\ lastOp' = NoOp
    /\ UNCHANGED << model, duration, size, prompt, isStoryboardMode,
                    storyboardView, storyboardSegments, previewPrompt,
                    batchCount, isGenerating, error, generation, settings,
                    savedCharacters, createdCharacter, optimization, app, call, regenVars,
                    tasks, storage, nextTaskId, now, timer, ticks, remote, clipVars >>

\* the seconds offered by the start-time dropdown
StartTimes == 0..7

\* the seconds offered by the end-time dropdown
EndTimes(start) == { start + 1, start + 2, start + 3 }

\* the effect on [startTime] that leaves the end time as it is
EndTimeEffect_Keep(start, end) == end

\* the effect on [startTime]: the end time after it
EndTimeEffect(start, end) ==
    IF end <= start \/ end > start + 3 THEN start + 1 ELSE end

\* setStartTime(parseInt(e.target.value)), from the start-time dropdown, and
\* the effect on [startTime]
SetStartTime(start) ==
    /\ model = SORA_2_CHARACTERS
    /\ start \in StartTimes
    /\ startTime' = start
    /\ endTime' = IF start # startTime THEN EndTimeEffect(start, endTime)
                  ELSE endTime
    /\ lastOp' = Op("setStartTime", endTime' # endTime)
    /\ UNCHANGED << model, duration, size, prompt, isStoryboardMode,
                    storyboardView, storyboardSegments, previewPrompt,
                    batchCount, isGenerating, error, generation, settings,
                    characterVars, optimization, app, call, regenVars, tasks,
                    storage, nextTaskId, now, timer, ticks, remote >>

\* setEndTime(parseInt(e.target.value)), from the end-time dropdown
SetEndTime(end) ==
    /\ model = SORA_2_CHARACTERS
    /\ end \in EndTimes(startTime)
    /\ endTime' = end
    /\ lastOp' = Op("setEndTime", FALSE)
    /\ UNCHANGED << model, duration, size, prompt, isStoryboardMode,
                    storyboardView, storyboardSegments, previewPrompt,
                    batchCount, isGenerating, error, generation, settings,
                    characterVars, optimization, app, call, regenVars,
                    startTime, tasks, storage, nextTaskId, now, timer, ticks,
                    remote >>

\* the character the remote service creates from a source video
CharacterResponse ==
    [id |-> "ch_1", username |-> "hero", permalink |-> "https://x/hero",
     profile_picture_url |-> "https://x/hero.png", profile_desc |-> {}]

\* App.handleSaveCharacter: the updater passed to setSavedCharacters
HandleSaveCharacter(prev, char) ==
    IF \E i \in 1..Len(prev) : prev[i].id = char.id THEN prev
    ELSE << char >> \o prev

\* createCharacter resolves: setCreatedCharacter, onSaveCharacter, finally
CreateCharacterResolved ==
    /\ generation.phase = "createCharacter"
    /\ createdCharacter' = {CharacterResponse}
    /\ savedCharacters' = HandleSaveCharacter(savedCharacters, CharacterResponse)
    /\ storage' = [storage EXCEPT
                      !.viva_characters = CharactersItem(savedCharacters')]
    /\ GenerateFinally
    /\ lastOp' = NoOp
    /\ UNCHANGED << model, duration, size, prompt, isStoryboardMode,
                    storyboardView, storyboardSegments, previewPrompt,
                    batchCount, error, settings, characterUrl, optimization,
                    app, call, autoGen, tasks, nextTaskId, now, timer, ticks, remote, clipVars >>

\* createCharacter throws: the catch and finally blocks
CreateCharacterRejected(outcome) ==
    /\ generation.phase = "createCharacter"
    /\ outcome \in CreateFailures
    /\ error' = ErrorMessage(CreateCharacter(outcome).error,
                             "create-character-failed")
    /\ GenerateFinally
    /\ lastOp' = NoOp
    /\ UNCHANGED << model, duration, size, prompt, isStoryboardMode,
                    storyboardView, storyboardSegments, previewPrompt,
                    batchCount, settings, characterVars, optimization, app, call, autoGen, tasks, storage, nextTaskId, now,
                    timer, ticks, remote, clipVars >>

\* x || 1 for a number or NaN
OrOne(x) == IF x = NaN \/ x = {0} THEN 1 ELSE CHOOSE v \in x : TRUE

\* setBatchCount(Math.min(10, Math.max(1, parseInt(value) || 1)))
SetBatchCount(value) ==
    /\ model # SORA_2_CHARACTERS
    /\ batchCount' = Min(10, Max(1, OrOne(ParseInt(value))))
    /\ lastOp' = NoOp
    /\ UNCHANGED << model, duration, size, prompt, isStoryboardMode,
                    storyboardView, storyboardSegments, previewPrompt,
                    isGenerating, error, generation, settings, characterVars, optimization, app, call, regenVars, tasks, storage,
                    nextTaskId, now,
                    timer, ticks, remote, clipVars >>

----------------------------------------------------------------------------
(* CreatePanel.handleOptimize.  isOptimizing is true exactly while the call
   is running (optimization is not Idle): it is set before the await and
   cleared in the finally block. *)

\* the "AI optimize" button that is rendered and enabled, if any: the one of
\* the prompt box or the one of the storyboard preview
OptimizeButton ==
    IF model = SORA_2_CHARACTERS \/ optimization # Idle THEN "none"
    ELSE IF ~isStoryboardMode THEN (IF prompt # <<>> THEN "text" ELSE "none")
    ELSE IF storyboardView = "preview" THEN "script"
    ELSE "none"

\* what fetch can produce for the chat-completion request: a network
\* failure, a non-success response, a success response without usable
\* content, a success response with the rewritten text
OptimizedText == << "O" >>

OptimizeOutcomes ==
    { Rejected(ErrorOf("TypeError", "Failed to fetch")),
      Responded(HttpResponse(500, Body("boom", NoDoc))),
      Responded(HttpResponse(200, Body("{}", {Doc({}, {}, {}, {})}))),
      Responded(HttpResponse(200, Body("{choices}", {Doc({}, {}, {OptimizedText}, {})}))) }

\* handleOptimize, up to its await
HandleOptimize ==
    /\ OptimizeButton # "none"
    /\ IF settings.apiKey = ""
       THEN UNCHANGED << error, optimization >>
       ELSE LET text == IF OptimizeButton = "text" THEN prompt ELSE previewPrompt IN
            /\ error' = NoError
            /\ optimization' = IF Trim(text) = <<>> THEN Idle
                               ELSE [phase |-> "optimizePrompt",
                                     mode |-> OptimizeButton, prompt |-> text]
    /\ lastOp' = NoOp
    /\ UNCHANGED << model, duration, size, prompt, isStoryboardMode,
                    storyboardView, storyboardSegments, previewPrompt,
                    batchCount, isGenerating, generation, settings,
                    characterVars, app, call, regenVars, tasks, storage, nextTaskId, now,
                    timer, ticks, remote, clipVars >>

\* optimizePrompt settles: the rest of the try block, or the catch block,
\* then the finally block
OptimizeSettled(outcome) ==
    /\ optimization # Idle
    /\ LET r == OptimizePrompt(optimization.prompt, optimization.mode, outcome) IN
       IF r.kind = "return"
       THEN /\ prompt' = IF optimization.mode = "text" THEN r.value ELSE prompt
            /\ previewPrompt' = IF optimization.mode = "script" THEN r.value
                                ELSE previewPrompt
            /\ UNCHANGED error
       ELSE /\ error' = ErrorMessage(r.error, "optimize-failed")
            /\ UNCHANGED << prompt, previewPrompt >>
    /\ optimization' = Idle
    /\ lastOp' = NoOp
    /\ UNCHANGED << model, duration, size, isStoryboardMode,
                    storyboardView, storyboardSegments,
                    batchCount, isGenerating, generation, settings,
                    characterVars, app, call, regenVars, tasks, storage, nextTaskId, now,
                    timer, ticks, remote, clipVars >>

----------------------------------------------------------------------------
(* The remote service and GalleryPanel's polling ticks *)

panelVars == << model, duration, size, prompt, isStoryboardMode,
                storyboardView, storyboardSegments, previewPrompt, batchCount,
                isGenerating, error, generation >>

\* a job the remote service has not started: no update time yet; the
\* service answers queries about it with bodies of the given shape
QueuedJob(shape) == [status |-> "queued", updateTime |-> {}, shape |-> shape]

\* the response body in which the status is the flat field
FlatResponse(job) ==
    [status |-> {job.status},
     video_url |-> IF job.status = "completed" THEN {"https://x/y.mp4"} ELSE {},
     status_update_time |-> job.updateTime,
     detail |-> {}]

\* the response body in which the status is in the nested detail object
NestedResponse(job) ==
    [status |-> {},
     video_url |-> {},
     status_update_time |-> {},
     detail |-> {[status |-> {job.status},
                  failure_reason |-> IF job.status = "failed" THEN {"reason"} ELSE {},
                  progress_pct |-> IF job.status = "processing" THEN {50}
                                   ELSE IF job.status = "completed" THEN {100}
                                   ELSE {},
                  video_url |-> IF job.status = "completed"
                                THEN {"https://x/y.mp4"} ELSE {},
                  thumbnail_url |-> IF job.status = "completed"
                                    THEN {"https://x/y.jpg"} ELSE {}]}]

ResponseShapes == { "flat", "nested" }

\* what the service answers to a status query of the job
Response(job) ==
    IF job.shape = "flat" THEN FlatResponse(job) ELSE NestedResponse(job)

\* a || b for optional texts ('' is falsy) and optional numbers (0 is falsy)
TruthyText(x) == x # {} /\ x # {""}
TruthyNumber(x) == x # {} /\ x # {0}
OrText(a, b) == IF TruthyText(a) THEN a ELSE b
OrNumber(a, b) == IF TruthyNumber(a) THEN a ELSE b

\* res.detail?.field
DetailField(res, field) == UNION { d[field] : d \in res.detail }

\* a merge that stamps the local clock whatever the response carries
UpdatedTask_ClockOnly(task, res, clock) ==
    LET resStatus == OrText(res.status, DetailField(res, "status"))
        updatedStatus == IF resStatus = {"completed"} THEN "completed"
                         ELSE IF resStatus = {"failed"} THEN "failed"
                         ELSE IF resStatus = {"processing"} THEN "processing"
                         ELSE task.status
    IN [task EXCEPT
            !.status = updatedStatus,
            !.videoUrl = OrText(OrText(res.video_url, DetailField(res, "video_url")), {}),
            !.thumbnailUrl = OrText(DetailField(res, "thumbnail_url"), {}),
            !.progress = DetailField(res, "progress_pct"),
            !.failureReason = DetailField(res, "failure_reason"),
            !.completedAt = IF updatedStatus \in TerminalStatus
                            THEN {clock} ELSE task.completedAt]

\* a merge that reads the nested detail first and the flat fields second
UpdatedTask_NestedFirst(task, res, clock) ==
    LET resStatus == OrText(DetailField(res, "status"), res.status)
        resVideoUrl == OrText(DetailField(res, "video_url"), res.video_url)
        updatedStatus == IF resStatus = {"completed"} THEN "completed"
                         ELSE IF resStatus = {"failed"} THEN "failed"
                         ELSE IF resStatus = {"processing"} THEN "processing"
                         ELSE task.status
    IN [task EXCEPT
            !.status = updatedStatus,
            !.videoUrl = OrText(resVideoUrl, {}),
            !.thumbnailUrl = OrText(DetailField(res, "thumbnail_url"), {}),
            !.progress = DetailField(res, "progress_pct"),
            !.failureReason = DetailField(res, "failure_reason"),
            !.completedAt = IF updatedStatus \in TerminalStatus
                               /\ ~TruthyNumber(task.completedAt)
                            THEN OrNumber(res.status_update_time, {clock})
                            ELSE task.completedAt]

\* the record the tick passes to onUpdateTask for its snapshot record `task`
UpdatedTask(task, res, clock) ==
    LET resStatus == OrText(res.status, DetailField(res, "status"))
        resFailureReason == DetailField(res, "failure_reason")
        resProgress == DetailField(res, "progress_pct")
        resVideoUrl == OrText(res.video_url, DetailField(res, "video_url"))
        resThumbnailUrl == DetailField(res, "thumbnail_url")
        updatedStatus == IF resStatus = {"completed"} THEN "completed"
                         ELSE IF resStatus = {"failed"} THEN "failed"
                         ELSE IF resStatus = {"processing"} THEN "processing"
                         ELSE task.status
    IN [task EXCEPT
            !.status = updatedStatus,
            !.videoUrl = OrText(resVideoUrl, {}),
            !.thumbnailUrl = OrText(resThumbnailUrl, {}),
            !.progress = resProgress,
            !.failureReason = resFailureReason,
            !.completedAt = IF updatedStatus \in TerminalStatus
                               /\ ~TruthyNumber(task.completedAt)
                            THEN OrNumber(res.status_update_time, {clock})
                            ELSE task.completedAt]

\* the test that guards onUpdateTask
PollChanged(task, res) ==
    LET resStatus == OrText(res.status, DetailField(res, "status"))
        resProgress == DetailField(res, "progress_pct")
        resVideoUrl == OrText(res.video_url, DetailField(res, "video_url"))
        updatedStatus == IF resStatus = {"completed"} THEN "completed"
                         ELSE IF resStatus = {"failed"} THEN "failed"
                         ELSE IF resStatus = {"processing"} THEN "processing"
                         ELSE task.status
    IN \/ updatedStatus # task.status
       \/ resVideoUrl # task.videoUrl
       \/ resProgress # task.progress

\* a tick awaiting queryVideoTask for the i-th task of its snapshot; the
\* service answers when the query arrives, the answer is still on its way
Query(pendingTasks, i) ==
    [pendingTasks |-> pendingTasks, i |-> i,
     res |-> Response(remote[pendingTasks[i].id])]

RemoveAt(seq, k) == SubSeq(seq, 1, k - 1) \o SubSeq(seq, k + 1, Len(seq))

\* a loop that starts over with the first task of the snapshot after the last
NextIteration_StartsOver(k) ==
    LET tick == ticks[k] IN
    IF tick.i < Len(tick.pendingTasks)
    THEN [ticks EXCEPT ![k] = Query(tick.pendingTasks, tick.i + 1)]
    ELSE [ticks EXCEPT ![k] = Query(tick.pendingTasks, 1)]

\* the next iteration of `for (const task of pendingTasks)` in the k-th
\* running tick: the query for the next task of its snapshot, or the end
NextIteration(k) ==
    LET tick == ticks[k] IN
    IF tick.i < Len(tick.pendingTasks)
    THEN [ticks EXCEPT ![k] = Query(tick.pendingTasks, tick.i + 1)]
    ELSE RemoveAt(ticks, k)

\* the query that iteration issues, if any
NextQueryOp(k, newTasks) ==
    LET tick == ticks[k] IN
    IF tick.i < Len(tick.pendingTasks)
    THEN Op("queryVideoTask",
            LocallyTerminal(newTasks, tick.pendingTasks[tick.i + 1].id))
    ELSE NoOp

\* the tick goes on to the next task of its snapshot, or ends
ContinueTick(k, newTasks, changed) ==
    /\ ticks' = NextIteration(k)
    /\ lastOp' = [NextQueryOp(k, newTasks) EXCEPT !.updated = changed]

\* an error that leaves the callback: the tick ends where it is
CatchInLoop_Escapes(k) == RemoveAt(ticks, k)

\* try { ... } catch (e) { console.error(...) } inside the loop body: the
\* error is logged and the loop goes on
CatchInLoop(k) == NextIteration(k)

\* the interval fires: the callback starts and issues its first query
TimerFire ==
    /\ timer.active
    /\ Len(ticks) < MaxTicks
    /\ ticks' = Append(ticks, Query(timer.pendingTasks, 1))
    /\ lastOp' = Op("queryVideoTask",
                    LocallyTerminal(tasks, timer.pendingTasks[1].id))
    /\ UNCHANGED << panelVars, settings, characterVars, optimization, app, call, regenVars, tasks, storage, nextTaskId, now, timer, remote, clipVars >>

\* queryVideoTask resolves in the k-th running tick: the merge, then the next
\* iteration of the loop
QueryResolved(k) ==
    /\ k \in 1..Len(ticks)
    /\ LET tick == ticks[k]
           task == tick.pendingTasks[tick.i]
           changed == PollChanged(task, tick.res)
           newTasks == IF changed
                       THEN HandleUpdateTask(tasks, UpdatedTask(task, tick.res, now))
                       ELSE tasks
       IN /\ tasks' = newTasks
          /\ storage' = IF changed
                         THEN [storage EXCEPT !.viva_tasks = TasksItem(newTasks)]
                         ELSE storage
          /\ timer' = IF changed THEN PollingEffect(newTasks) ELSE timer
          /\ ContinueTick(k, newTasks, changed)
    /\ UNCHANGED << panelVars, settings, characterVars, optimization, app, call, regenVars, nextTaskId, now, remote, clipVars >>

\* queryVideoTask throws in the k-th running tick: the catch block logs, the
\* loop goes on
QueryRejected(k) ==
    /\ k \in 1..Len(ticks)
    /\ ticks' = CatchInLoop(k)
    /\ lastOp' = [NextQueryOp(k, tasks) EXCEPT !.rejected = TRUE]
    /\ UNCHANGED << panelVars, settings, characterVars, optimization, app, call, regenVars, tasks, storage, nextTaskId, now, timer, remote, clipVars >>

\* App.handleDeleteTasks([id]), from a card's delete button
DeleteTask(id) ==
    /\ \E i \in 1..Len(tasks) : tasks[i].id = id
    /\ tasks' = SelectSeq(tasks, LAMBDA t : t.id # id)
    /\ storage' = [storage EXCEPT !.viva_tasks = TasksItem(tasks')]
    /\ timer' = PollingEffect(tasks')
    /\ lastOp' = NoOp
    /\ UNCHANGED << panelVars, settings, characterVars, optimization, app, call, regenVars, nextTaskId, now, ticks, remote, clipVars >>

\* the remote service moves a job forward
RemoteAdvance(id) ==
    /\ id < nextTaskId
    /\ \/ /\ remote[id].status = "queued"
          /\ remote' = [remote EXCEPT ![id].status = "processing"]
       \/ /\ remote[id].status = "processing"
          /\ \E s \in TerminalStatus :
                remote' = [remote EXCEPT ![id].status = s,
                                        ![id].updateTime = {now}]
    /\ lastOp' = NoOp
    /\ UNCHANGED << panelVars, settings, characterVars, optimization, app, call, regenVars, tasks, storage, nextTaskId, now, timer, ticks, clipVars >>

\* time passes
ClockAdvance ==
    /\ now < MaxClock
    /\ now' = now + 1
    /\ lastOp' = NoOp
    /\ UNCHANGED << panelVars, settings, characterVars, optimization, app, call, regenVars, tasks, storage, nextTaskId, timer, ticks, remote, clipVars >>

----------------------------------------------------------------------------
(* Regenerate: App.handleRegenerate sets createPanelState, the initialState
   effect of CreatePanel takes the prompt and the model over and schedules
   handleGenerate(undefined, true) 100 ms later.  The function it schedules
   is the handleGenerate of the render in which the effect runs: the state
   it reads is the state of the panel before setPrompt and setModel of the
   effect take hold, and its initialState is the new one.

   autoGen is [phase |-> "none"], or the scheduled call with the state its
   handleGenerate closes over, or the running call as in generation. *)

\* the state the functions of the current render close over
Render ==
    [settings |-> settings, isGenerating |-> isGenerating, model |-> model,
     prompt |-> prompt, characterUrl |-> characterUrl,
     isStoryboardMode |-> isStoryboardMode, storyboardView |-> storyboardView,
     previewPrompt |-> previewPrompt, storyboardSegments |-> storyboardSegments,
     duration |-> duration, size |-> size, batchCount |-> batchCount,
     startTime |-> startTime, endTime |-> endTime]

\* `prompt || (isAuto && initialState?.prompt ? initialState.prompt : '')`
\* in the handleGenerate of render r, called with isAuto
InitialCurrentPrompt(r, initialPrompt) ==
    IF r.prompt # <<>> THEN r.prompt ELSE initialPrompt

\* the validation of the handleGenerate of render r
GenerateErrorOf(r, initialPrompt) ==
    IF r.model = SORA_2_CHARACTERS
    THEN (IF r.characterUrl = <<>> THEN "character-url-missing" ELSE NoError)
    ELSE IF r.isStoryboardMode
    THEN IF r.storyboardView = "preview"
         THEN (IF Trim(r.previewPrompt) = <<>> THEN "preview-empty" ELSE NoError)
         ELSE IF SumDurations(r.storyboardSegments) # r.duration THEN "sum-mismatch"
         ELSE IF SomeDescriptionBlank(r.storyboardSegments) THEN "description-missing"
         ELSE NoError
    ELSE IF Trim(InitialCurrentPrompt(r, initialPrompt)) = <<>>
    THEN "prompt-missing" ELSE NoError

\* currentPrompt of the handleGenerate of render r
CurrentPromptOf(r, initialPrompt) ==
    IF r.isStoryboardMode
    THEN IF r.storyboardView = "preview"
         THEN ReplaceLineBreaks(ReplaceBlankLines(r.previewPrompt))
         ELSE Join(PromptParts(r.storyboardSegments, 0), << ";", " " >>)
    ELSE InitialCurrentPrompt(r, initialPrompt)

\* the CreateVideoRequest built by the handleGenerate of render r
VideoRequestOf(r, initialPrompt) ==
    [model |-> r.model, prompt |-> Trim(CurrentPromptOf(r, initialPrompt)),
     duration |-> r.duration, size |-> r.size]

\* the Regenerate button of the i-th card: handleRegenerate(task), then the
\* initialState effect.  Pressed while no call scheduled by an earlier
\* Regenerate is pending or running.
Regenerate(i) ==
    /\ i \in 1..Len(tasks)
    /\ tasks[i].status = "completed"
    /\ tasks[i].videoUrl # {}
    /\ autoGen = NoAutoGen
    /\ LET task == tasks[i] IN
       /\ prompt' = IF task.prompt # <<>> THEN task.prompt ELSE prompt
       /\ RenderAndRunEffects(task.model, duration, isStoryboardMode,
                              storyboardView, storyboardSegments)
       /\ createdCharacter' = ClearedCharacter(task.model)
       /\ IF ~autoGenTriggered
          THEN /\ autoGenTriggered' = TRUE
               /\ autoGen' = [phase |-> "scheduled", render |-> Render,
                              initialPrompt |-> task.prompt, task |-> task]
          ELSE /\ autoGenTriggered' = FALSE
               /\ autoGen' = autoGen
    /\ lastOp' = Op("regenerate", FALSE)
    /\ UNCHANGED << previewPrompt, batchCount, isGenerating, error, generation,
                    settings, savedCharacters, characterUrl, optimization, app,
                    call, tasks, storage, nextTaskId, now, timer, ticks, remote, clipVars >>

\* the phases in which a handleGenerate call has requests outstanding
Outstanding == { "createVideoTask", "delay", "createCharacter" }

\* the timeout of the initialState effect fires: handleGenerate(undefined,
\* true) of the render that scheduled it, up to its first await
AutoGenerate ==
    /\ autoGen.phase = "scheduled"
    /\ LET r == autoGen.render
           initialPrompt == autoGen.initialPrompt
       IN IF r.settings.apiKey = "" \/ r.isGenerating
          THEN /\ autoGen' = NoAutoGen
               /\ lastOp' = NoOp
               /\ UNCHANGED << isGenerating, error, createdCharacter >>
          ELSE IF GenerateErrorOf(r, initialPrompt) # NoError
          THEN /\ error' = GenerateErrorOf(r, initialPrompt)
               /\ autoGen' = NoAutoGen
               /\ lastOp' = NoOp
               /\ UNCHANGED << isGenerating, createdCharacter >>
          ELSE /\ isGenerating' = TRUE
               /\ error' = NoError
               /\ createdCharacter' = {}
               /\ autoGen' =
                     IF r.model = SORA_2_CHARACTERS
                     THEN [phase |-> "createCharacter",
                           url |-> Trim(r.characterUrl),
                           timestamps |-> << r.startTime, r.endTime >>,
                           task |-> autoGen.task]
                     ELSE [phase |-> "createVideoTask", i |-> 0,
                           batchCount |-> r.batchCount,
                           request |-> VideoRequestOf(r, initialPrompt),
                           currentPrompt |-> CurrentPromptOf(r, initialPrompt),
                           taskIds |-> <<>>, task |-> autoGen.task]
               /\ lastOp' = Op("autoGenerate", generation.phase \in Outstanding)
    /\ UNCHANGED << model, duration, size, prompt, isStoryboardMode,
                    storyboardView, storyboardSegments, previewPrompt,
                    batchCount, generation, settings, savedCharacters,
                    characterUrl, optimization, app, call, autoGenTriggered,
                    tasks, storage, nextTaskId, now, timer, ticks, remote, clipVars >>

\* the finally block of the scheduled handleGenerate
AutoGenerateFinally ==
    /\ isGenerating' = FALSE
    /\ autoGenTriggered' = FALSE
    /\ autoGen' = NoAutoGen

\* createVideoTask resolves in the scheduled call
AutoCreateVideoTaskResolved ==
    /\ autoGen.phase = "createVideoTask"
    /\ nextTaskId <= MaxTasks
    /\ nextTaskId' = nextTaskId + 1
    /\ LET taskIds == Append(autoGen.taskIds, nextTaskId) IN
       IF DelayNeeded(autoGen.i, autoGen.batchCount)
       THEN /\ autoGen' = [autoGen EXCEPT !.phase = "delay", !.taskIds = taskIds]
            /\ UNCHANGED << tasks, storage, isGenerating, timer, autoGenTriggered >>
       ELSE /\ tasks' = TasksCreated(taskIds, autoGen.currentPrompt,
                                     autoGen.request.model)
            /\ storage' = [storage EXCEPT !.viva_tasks = TasksItem(tasks')]
            /\ timer' = PollingEffect(tasks')
            /\ AutoGenerateFinally
    /\ lastOp' = NoOp
    /\ UNCHANGED << model, duration, size, prompt, isStoryboardMode,
                    storyboardView, storyboardSegments, previewPrompt,
                    batchCount, error, generation, settings, characterVars,
                    optimization, app, call, now, ticks, remote, clipVars >>

\* the 800 ms delay of the scheduled call has elapsed
AutoNextBatchRequest ==
    /\ autoGen.phase = "delay"
    /\ autoGen' = [autoGen EXCEPT !.phase = "createVideoTask", !.i = autoGen.i + 1]
    /\ lastOp' = Op("autoGenerate", generation.phase \in Outstanding)
    /\ UNCHANGED << panelVars, settings, characterVars, optimization, app, call,
                    autoGenTriggered, tasks, storage, nextTaskId, now, timer,
                    ticks, remote, clipVars >>

\* createVideoTask or createCharacter throws in the scheduled call
AutoRequestRejected(outcome) ==
    /\ autoGen.phase \in { "createVideoTask", "createCharacter" }
    /\ outcome \in CreateFailures
    /\ error' = IF autoGen.phase = "createVideoTask"
                THEN ErrorMessage(CreateVideoTask(outcome).error, "generate-failed")
                ELSE ErrorMessage(CreateCharacter(outcome).error,
                                  "create-character-failed")
    /\ AutoGenerateFinally
    /\ lastOp' = NoOp
    /\ UNCHANGED << model, duration, size, prompt, isStoryboardMode,
                    storyboardView, storyboardSegments, previewPrompt,
                    batchCount, generation, settings, characterVars,
                    optimization, app, call, tasks, storage, nextTaskId, now,
                    timer, ticks, remote, clipVars >>

\* createCharacter resolves in the scheduled call
AutoCreateCharacterResolved ==
    /\ autoGen.phase = "createCharacter"
    /\ createdCharacter' = {CharacterResponse}
    /\ savedCharacters' = HandleSaveCharacter(savedCharacters, CharacterResponse)
    /\ storage' = [storage EXCEPT
                      !.viva_characters = CharactersItem(savedCharacters')]
    /\ AutoGenerateFinally
    /\ lastOp' = NoOp
    /\ UNCHANGED << model, duration, size, prompt, isStoryboardMode,
                    storyboardView, storyboardSegments, previewPrompt,
                    batchCount, error, generation, settings, characterUrl,
                    optimization, app, call, tasks, nextTaskId, now, timer,
                    ticks, remote, clipVars >>

----------------------------------------------------------------------------
(* One call of a function of services/apiService: call holds the function,
   its arguments and what fetch produces, then the way the call ended. *)

ClientCall(fn, mode, promptText, outcome) ==
    [phase |-> "fetch", fn |-> fn, mode |-> mode, prompt |-> promptText,
     outcome |-> outcome]

Settled(result) ==
    [phase |-> "settled", fn |-> call.fn, mode |-> call.mode,
     prompt |-> call.prompt, outcome |-> call.outcome, result |-> result]

clientUnchanged == << panelVars, settings, characterVars, optimization, app,
                      regenVars, clipVars,
                      tasks, storage, nextTaskId, now, timer, ticks, remote,
                      lastOp >>

OptimizePromptSettles ==
    /\ call.phase = "fetch"
    /\ call.fn = "optimizePrompt"
    /\ call' = Settled(OptimizePrompt(call.prompt, call.mode, call.outcome))
    /\ UNCHANGED clientUnchanged

CreateVideoTaskSettles ==
    /\ call.phase = "fetch"
    /\ call.fn = "createVideoTask"
    /\ call' = Settled(CreateVideoTask(call.outcome))
    /\ UNCHANGED clientUnchanged

CreateCharacterSettles ==
    /\ call.phase = "fetch"
    /\ call.fn = "createCharacter"
    /\ call' = Settled(CreateCharacter(call.outcome))
    /\ UNCHANGED clientUnchanged

QueryVideoTaskSettles ==
    /\ call.phase = "fetch"
    /\ call.fn = "queryVideoTask"
    /\ call' = Settled(QueryVideoTask(call.outcome))
    /\ UNCHANGED clientUnchanged

----------------------------------------------------------------------------
(* Initial state: the useState initialisers *)

Init ==
    /\ model = SORA_2
    /\ duration = 10
    /\ size = "small"
    /\ prompt = <<>>
    /\ isStoryboardMode = FALSE
    /\ storyboardView = "edit"
    /\ storyboardSegments = << [id |-> 1, duration |-> 5, description |-> <<>>] >>
    /\ previewPrompt = <<>>
    /\ batchCount = 1
    /\ isGenerating = FALSE
    /\ error = NoError
    /\ generation = [phase |-> "idle"]
    /\ settings = [baseUrl |-> "https://www.vivaapi.cn", apiKey |-> ""]
    /\ tasks = <<>>
    /\ nextTaskId = 1
    /\ now = 1
    /\ timer = NoTimer
    /\ ticks = <<>>
    /\ remote = [id \in 1..MaxTasks |-> QueuedJob("flat")]
    /\ savedCharacters = <<>>
    /\ characterUrl = <<>>
    /\ createdCharacter = {}
    /\ optimization = Idle
    /\ storage = Persisted(settings, tasks, savedCharacters)
    /\ app = "running"
    /\ call = Idle
    /\ autoGenTriggered = FALSE
    /\ autoGen = NoAutoGen
    /\ startTime = 1
    /\ endTime = 3
    /\ lastOp = NoOp

\* the operations that change the segment durations or the target duration
NextSegments ==
    \/ \E m \in VideoModel : SetModel(m)
    \/ \E d \in VideoDuration : SetDuration(d)
    \/ ToggleStoryboardMode
    \/ \E id \in 1..MaxSegments, v \in DurationInputs : UpdateSegmentDuration(id, v)
    \/ AddSegment
    \/ \E id \in 1..MaxSegments : RemoveSegment(id)

SpecSegments == Init /\ [][NextSegments]_vars

----------------------------------------------------------------------------
(* The editor with a composed storyboard.  Every state drawn here is produced
   from Init by the editing operations above: the mode toggle, addSegment and
   updateSegment with the typed values.  The settings are those loaded from
   the saved snapshot.  The job-creation request of this scenario fails (the
   catch block of handleGenerate), so that the panel can submit again. *)

EditorDurations == { 0, 4, 6, 10 }

EditorDescriptions == { << " " >>, << "A" >>, << "B" >> }

EditorSegmentLists ==
    UNION { { [i \in 1..n |-> [id |-> i, duration |-> f[i][1], description |-> f[i][2]]] :
                f \in [1..n -> EditorDurations \X EditorDescriptions] } :
            n \in 1..MaxEditorSegments }

InitEditor ==
    /\ model = SORA_2
    /\ duration = 10
    /\ size = "small"
    /\ prompt = <<>>
    /\ isStoryboardMode = TRUE
    /\ storyboardView = "edit"
    /\ storyboardSegments \in EditorSegmentLists
    /\ SumDurations(storyboardSegments) <= duration
    /\ previewPrompt = <<>>
    /\ batchCount = 1
    /\ isGenerating = FALSE
    /\ error = NoError
    /\ generation = Idle
    /\ settings = [baseUrl |-> "https://www.vivaapi.cn", apiKey |-> "key"]
    /\ tasks = <<>>
    /\ nextTaskId = 1
    /\ now = 1
    /\ timer = NoTimer
    /\ ticks = <<>>
    /\ remote = [id \in 1..MaxTasks |-> QueuedJob("flat")]
    /\ savedCharacters = <<>>
    /\ characterUrl = <<>>
    /\ createdCharacter = {}
    /\ optimization = Idle
    /\ storage = Persisted(settings, tasks, savedCharacters)
    /\ app = "running"
    /\ call = Idle
    /\ autoGenTriggered = FALSE
    /\ autoGen = NoAutoGen
    /\ startTime = 1
    /\ endTime = 3
    /\ lastOp = NoOp

\* the operations of the create panel on a composed storyboard
NextEditor ==
    \/ \E m \in VideoModel : SetModel(m)
    \/ \E d \in VideoDuration : SetDuration(d)
    \/ ToggleStoryboardMode
    \/ AddSegment
    \/ HandlePreviewAndOptimize
    \/ BackToEdit
    \/ \E t \in PreviewInputs : EditPreview(t)
    \/ HandleGenerate
    \/ CreateVideoTaskRejected(Rejected(ErrorOf("TypeError", "Failed to fetch")))

SpecEditor == InitEditor /\ [][NextEditor]_vars

----------------------------------------------------------------------------
(* Submission from the initial panel, with the settings loaded from the saved
   snapshot: the prompt box, the batch count, the model buttons, the source
   URL of a character, and the whole of handleGenerate with its batch loop,
   every request of it succeeding or failing. *)

InitSubmit ==
    /\ model = SORA_2
    /\ duration = 10
    /\ size = "small"
    /\ prompt = <<>>
    /\ isStoryboardMode = FALSE
    /\ storyboardView = "edit"
    /\ storyboardSegments = << [id |-> 1, duration |-> 5, description |-> <<>>] >>
    /\ previewPrompt = <<>>
    /\ batchCount = 1
    /\ isGenerating = FALSE
    /\ error = NoError
    /\ generation = Idle
    /\ settings = [baseUrl |-> "https://www.vivaapi.cn", apiKey |-> "key"]
    /\ tasks = <<>>
    /\ nextTaskId = 1
    /\ now = 1
    /\ timer = NoTimer
    /\ ticks = <<>>
    /\ remote = [id \in 1..MaxTasks |-> QueuedJob("flat")]
    /\ savedCharacters = <<>>
    /\ characterUrl = <<>>
    /\ createdCharacter = {}
    /\ optimization = Idle
    /\ storage = Persisted(settings, tasks, savedCharacters)
    /\ app = "running"
    /\ call = Idle
    /\ autoGenTriggered = FALSE
    /\ autoGen = NoAutoGen
    /\ startTime = 1
    /\ endTime = 3
    /\ lastOp = NoOp

NextSubmit ==
    \/ \E t \in PromptInputs : SetPrompt(t)
    \/ \E v \in BatchInputs : SetBatchCount(v)
    \/ \E m \in VideoModel : SetModel(m)
    \/ \E u \in CharacterUrlInputs : SetCharacterUrl(u)
    \/ HandleGenerate
    \/ CreateVideoTaskResolved
    \/ NextBatchRequest
    \/ \E o \in CreateFailures : CreateVideoTaskRejected(o)
    \/ CreateCharacterResolved
    \/ \E o \in CreateFailures : CreateCharacterRejected(o)

SpecSubmit == InitSubmit /\ [][NextSubmit]_vars

----------------------------------------------------------------------------
(* Regeneration: the gallery holds one completed video, made with either
   video model; the user types in the prompt box, picks a video model and a
   batch count, presses Regenerate on a card and the generate button, and
   every request succeeds or fails. *)

\* the prompt of the completed video
RegeneratedPrompt == << "T" >>

\* one completed video made with model m
CompletedTasks(m) ==
    << [id |-> 1, status |-> "completed", prompt |-> RegeneratedPrompt,
        model |-> m, createdAt |-> 1, completedAt |-> {1},
        videoUrl |-> {"https://x/1.mp4"}, thumbnailUrl |-> {}, progress |-> {},
        failureReason |-> {}] >>

InitRegen ==
    /\ model = SORA_2
    /\ duration = 10
    /\ size = "small"
    /\ prompt = <<>>
    /\ isStoryboardMode = FALSE
    /\ storyboardView = "edit"
    /\ storyboardSegments = << [id |-> 1, duration |-> 5, description |-> <<>>] >>
    /\ previewPrompt = <<>>
    /\ batchCount = 1
    /\ isGenerating = FALSE
    /\ error = NoError
    /\ generation = Idle
    /\ settings = [baseUrl |-> "https://www.vivaapi.cn", apiKey |-> "key"]
    /\ \E m \in { SORA_2, SORA_2_PRO } : tasks = CompletedTasks(m)
    /\ nextTaskId = 2
    /\ now = 1
    /\ timer = PollingEffect(tasks)
    /\ ticks = <<>>
    /\ remote = [id \in 1..MaxTasks |-> QueuedJob("flat")]
    /\ savedCharacters = <<>>
    /\ characterUrl = <<>>
    /\ createdCharacter = {}
    /\ optimization = Idle
    /\ storage = Persisted(settings, tasks, savedCharacters)
    /\ app = "running"
    /\ call = Idle
    /\ autoGenTriggered = FALSE
    /\ autoGen = NoAutoGen
    /\ startTime = 1
    /\ endTime = 3
    /\ lastOp = NoOp

\* fetch rejects: the network is down
NetworkFailure == Rejected(ErrorOf("TypeError", "Failed to fetch"))

NextRegen ==
    \/ \E t \in PromptInputs : SetPrompt(t)
    \/ \E v \in BatchInputs : SetBatchCount(v)
    \/ \E m \in { SORA_2, SORA_2_PRO } : SetModel(m)
    \/ \E i \in 1..MaxTasks : Regenerate(i)
    \/ AutoGenerate
    \/ AutoCreateVideoTaskResolved
    \/ AutoNextBatchRequest
    \/ AutoRequestRejected(NetworkFailure)
    \/ HandleGenerate
    \/ CreateVideoTaskResolved
    \/ NextBatchRequest
    \/ CreateVideoTaskRejected(NetworkFailure)

SpecRegen == InitRegen /\ [][NextRegen]_vars

----------------------------------------------------------------------------
(* Character creation from the initial panel: the model buttons, the source
   URL, the two dropdowns of the clip range and the generate button; the
   request succeeds or fails. *)

\* the seconds the end-time dropdown can offer, over all start times
ClipSeconds == 1..10

NextClip ==
    \/ \E m \in VideoModel : SetModel(m)
    \/ \E u \in CharacterUrlInputs : SetCharacterUrl(u)
    \/ \E s \in StartTimes : SetStartTime(s)
    \/ \E e \in ClipSeconds : SetEndTime(e)
    \/ HandleGenerate
    \/ CreateCharacterResolved
    \/ CreateCharacterRejected(NetworkFailure)

SpecClip == InitSubmit /\ [][NextClip]_vars

----------------------------------------------------------------------------
(* Writing from the initial panel: the prompt box, the storyboard written
   from the initial segment, its preview, and the "AI optimize" button. *)

NextWrite ==
    \/ \E t \in PromptInputs : SetPrompt(t)
    \/ ToggleStoryboardMode
    \/ AddSegment
    \/ \E id \in 1..MaxSegments, v \in DescriptionInputs : UpdateSegmentDescription(id, v)
    \/ HandlePreviewAndOptimize
    \/ BackToEdit
    \/ HandleOptimize
    \/ \E o \in OptimizeOutcomes : OptimizeSettled(o)

SpecWrite == InitSubmit /\ [][NextWrite]_vars

----------------------------------------------------------------------------
(* The gallery with submitted jobs: the task list is the one loaded from the
   saved snapshot, every job of it still pending, and the polling effect has
   run for it. *)

SavedPrompt == << "P" >>

SavedTasks(n) ==
    [i \in 1..n |->
        [id |-> n + 1 - i, status |-> "pending", prompt |-> SavedPrompt,
         model |-> SORA_2, createdAt |-> 1, completedAt |-> {},
         videoUrl |-> {}, thumbnailUrl |-> {}, progress |-> {},
         failureReason |-> {}]]

InitPoll ==
    /\ model = SORA_2
    /\ duration = 10
    /\ size = "small"
    /\ prompt = <<>>
    /\ isStoryboardMode = FALSE
    /\ storyboardView = "edit"
    /\ storyboardSegments = << [id |-> 1, duration |-> 5, description |-> <<>>] >>
    /\ previewPrompt = <<>>
    /\ batchCount = 1
    /\ isGenerating = FALSE
    /\ error = NoError
    /\ generation = Idle
    /\ settings = [baseUrl |-> "https://www.vivaapi.cn", apiKey |-> "key"]
    /\ \E n \in 1..MaxTasks :
          /\ tasks = SavedTasks(n)
          /\ nextTaskId = n + 1
    /\ now = 1
    /\ timer = PollingEffect(tasks)
    /\ ticks = <<>>
    /\ \E shape \in ResponseShapes :
          remote = [id \in 1..MaxTasks |-> QueuedJob(shape)]
    /\ savedCharacters = <<>>
    /\ characterUrl = <<>>
    /\ createdCharacter = {}
    /\ optimization = Idle
    /\ storage = Persisted(settings, tasks, savedCharacters)
    /\ app = "running"
    /\ call = Idle
    /\ autoGenTriggered = FALSE
    /\ autoGen = NoAutoGen
    /\ startTime = 1
    /\ endTime = 3
    /\ lastOp = NoOp

\* the polling ticks, the remote service, the clock and the delete button
NextPoll ==
    \/ TimerFire
    \/ \E k \in 1..MaxTicks : QueryResolved(k)
    \/ \E k \in 1..MaxTicks : QueryRejected(k)
    \/ \E id \in 1..MaxTasks : DeleteTask(id)
    \/ \E id \in 1..MaxTasks : RemoteAdvance(id)
    \/ ClockAdvance

SpecPoll == InitPoll /\ [][NextPoll]_vars

----------------------------------------------------------------------------
(* The gallery left to itself: the polling ticks and the remote service, no
   task deleted.  setInterval fires the callback as long as the interval is
   set; every status query is answered or fails; and a task whose queries
   can succeed again and again is not answered by failures only. *)

\* the task the k-th running tick is querying
QueriedId(k) == ticks[k].pendingTasks[ticks[k].i].id

NextPollFair ==
    \/ TimerFire
    \/ \E k \in 1..MaxTicks : QueryResolved(k)
    \/ \E k \in 1..MaxTicks : QueryRejected(k)
    \/ \E id \in 1..MaxTasks : RemoteAdvance(id)

\* some running tick is waiting for the answer to a query for the task
Queried(id) == \E k \in 1..Len(ticks) : QueriedId(k) = id

\* a query is in flight
QueryInFlight == ticks # <<>>

\* the next settlement of some query in flight
QuerySettles == \E k \in 1..MaxTicks : QueryResolved(k) \/ QueryRejected(k)

\* the query for the task is answered
QueryAnswered(id) == \E k \in 1..MaxTicks : QueryResolved(k) /\ QueriedId(k) = id

\* WF_vars(TimerFire); weak fairness of QuerySettles and, for each task,
\* strong fairness of QueryAnswered(id), the last two written with their
\* enabling conditions QueryInFlight and Queried(id) spelled out
\* (FairnessEnabling states that these are the enabling conditions).
FairPolling ==
    /\ WF_vars(TimerFire)
    /\ \/ []<>(~QueryInFlight)
       \/ []<><<QuerySettles>>_vars
    /\ \A id \in 1..MaxTasks :
          \/ <>[](~Queried(id))
          \/ []<><<QueryAnswered(id)>>_vars

\* the enabling conditions used in FairPolling are those of the actions
FairnessEnabling ==
    /\ QueryInFlight <=> ENABLED <<QuerySettles>>_vars
    /\ \A id \in 1..MaxTasks : Queried(id) <=> ENABLED <<QueryAnswered(id)>>_vars

SpecPollFair == InitPoll /\ [][NextPollFair]_vars /\ FairPolling

----------------------------------------------------------------------------
(* The merge of one response: one task, pending or processing, and a tick
   of the interval waiting for the answer to its query; the answer is any
   body of the QueryVideoResponse type over a few values. *)

\* values of a status field: empty, one the client does not know, and the
\* three it takes over
StatusValues == { "", "queued", "processing", "completed", "failed" }

DetailValues ==
    { [status |-> {v}, failure_reason |-> {}, progress_pct |-> p,
       video_url |-> u, thumbnail_url |-> {}] :
        v \in StatusValues, p \in { {}, {50} },
        u \in { {}, {"https://x/nested.mp4"} } }

QueryResponses ==
    { [status |-> s, video_url |-> u, status_update_time |-> {}, detail |-> d] :
        s \in { {} } \cup { {v} : v \in StatusValues },
        u \in { {}, {"https://x/flat.mp4"} },
        d \in { {} } \cup { {x} : x \in DetailValues } }

InitMerge ==
    /\ model = SORA_2
    /\ duration = 10
    /\ size = "small"
    /\ prompt = <<>>
    /\ isStoryboardMode = FALSE
    /\ storyboardView = "edit"
    /\ storyboardSegments = << [id |-> 1, duration |-> 5, description |-> <<>>] >>
    /\ previewPrompt = <<>>
    /\ batchCount = 1
    /\ isGenerating = FALSE
    /\ error = NoError
    /\ generation = Idle
    /\ settings = [baseUrl |-> "https://www.vivaapi.cn", apiKey |-> "key"]
    /\ \E s \in { "pending", "processing" } :
          tasks = << [SavedTasks(1)[1] EXCEPT !.status = s] >>
    /\ nextTaskId = 2
    /\ now = 1
    /\ timer = PollingEffect(tasks)
    /\ \E res \in QueryResponses :
          ticks = << [pendingTasks |-> timer.pendingTasks, i |-> 1, res |-> res] >>
    /\ remote = [id \in 1..MaxTasks |-> QueuedJob("flat")]
    /\ savedCharacters = <<>>
    /\ characterUrl = <<>>
    /\ createdCharacter = {}
    /\ optimization = Idle
    /\ storage = Persisted(settings, tasks, savedCharacters)
    /\ app = "running"
    /\ call = Idle
    /\ autoGenTriggered = FALSE
    /\ autoGen = NoAutoGen
    /\ startTime = 1
    /\ endTime = 3
    /\ lastOp = Op("queryVideoTask", FALSE)

NextMerge == \E k \in 1..MaxTicks : QueryResolved(k)

SpecMerge == InitMerge /\ [][NextMerge]_vars

----------------------------------------------------------------------------
(* The page over its lifetime: it is opened on whatever the three keys of
   localStorage hold, the records change while it runs, it is closed and
   opened again.  While the page is closed the in-memory variables hold the
   values of a fresh page and mean nothing. *)

Absent == [kind |-> "absent"]
Invalid == [kind |-> "invalid"]
NullText == [kind |-> "null"]

ConfiguredSettings == [baseUrl |-> "https://www.vivaapi.cn", apiKey |-> "key"]

\* what SettingsDialog hands to onSave
SettingsInputs ==
    { DefaultSettings, ConfiguredSettings,
      [baseUrl |-> "https://proxy.example", apiKey |-> "key"] }

\* what the page may find under each key when it is opened
SettingsSnapshots == { Absent, Invalid, NullText, SettingsItem(ConfiguredSettings) }
TasksSnapshots == { Absent, Invalid, NullText, TasksItem(SavedTasks(1)) }
CharactersSnapshots ==
    { Absent, Invalid, NullText, CharactersItem(<< CharacterResponse >>) }

InitStore ==
    /\ model = SORA_2
    /\ duration = 10
    /\ size = "small"
    /\ prompt = <<>>
    /\ isStoryboardMode = FALSE
    /\ storyboardView = "edit"
    /\ storyboardSegments = << [id |-> 1, duration |-> 5, description |-> <<>>] >>
    /\ previewPrompt = <<>>
    /\ batchCount = 1
    /\ isGenerating = FALSE
    /\ error = NoError
    /\ generation = Idle
    /\ settings = DefaultSettings
    /\ tasks = <<>>
    /\ nextTaskId = 2
    /\ now = 1
    /\ timer = NoTimer
    /\ ticks = <<>>
    /\ remote = [id \in 1..MaxTasks |-> QueuedJob("flat")]
    /\ savedCharacters = <<>>
    /\ characterUrl = <<>>
    /\ createdCharacter = {}
    /\ optimization = Idle
    /\ \E s \in SettingsSnapshots, t \in TasksSnapshots, c \in CharactersSnapshots :
          storage = [viva_settings |-> s, viva_tasks |-> t, viva_characters |-> c]
    /\ app = "closed"
    /\ call = Idle
    /\ autoGenTriggered = FALSE
    /\ autoGen = NoAutoGen
    /\ startTime = 1
    /\ endTime = 3
    /\ lastOp = NoOp

\* the page is opened: the three useState initialisers, the first render,
\* then the effects of the mount (the three setItem calls and the polling
\* effect).  The first render reads settings.apiKey, tasks.some and
\* savedCharacters.length: it throws when one of them is null, nothing is
\* mounted and no effect runs.
StartApp ==
    /\ app = "closed"
    /\ LET s == InitialSettings(storage.viva_settings)
           ts == InitialTasks(storage.viva_tasks)
           cs == InitialCharacters(storage.viva_characters)
       IN IF s = {} \/ ts = {} \/ cs = {}
          THEN /\ app' = "crashed"
               /\ UNCHANGED << settings, tasks, savedCharacters, storage, timer >>
          ELSE /\ app' = "running"
               /\ settings' = CHOOSE v \in s : TRUE
               /\ tasks' = CHOOSE v \in ts : TRUE
               /\ savedCharacters' = CHOOSE v \in cs : TRUE
               /\ storage' = Persisted(settings', tasks', savedCharacters')
               /\ timer' = PollingEffect(tasks')
    /\ lastOp' = Op("startApp", FALSE)
    /\ UNCHANGED << panelVars, characterUrl, createdCharacter, optimization,
                    call, regenVars, nextTaskId, now, ticks, remote, clipVars >>

\* the page is closed or reloaded: the in-memory state is gone, the timers
\* and the running callbacks with it; localStorage stays
CloseApp ==
    /\ app # "closed"
    /\ app' = "closed"
    /\ model' = SORA_2
    /\ duration' = 10
    /\ size' = "small"
    /\ prompt' = <<>>
    /\ isStoryboardMode' = FALSE
    /\ storyboardView' = "edit"
    /\ storyboardSegments' = << [id |-> 1, duration |-> 5, description |-> <<>>] >>
    /\ previewPrompt' = <<>>
    /\ batchCount' = 1
    /\ isGenerating' = FALSE
    /\ error' = NoError
    /\ generation' = Idle
    /\ settings' = DefaultSettings
    /\ tasks' = <<>>
    /\ savedCharacters' = <<>>
    /\ characterUrl' = <<>>
    /\ createdCharacter' = {}
    /\ timer' = NoTimer
    /\ ticks' = <<>>
    /\ lastOp' = NoOp
    /\ autoGenTriggered' = FALSE
    /\ autoGen' = NoAutoGen
    /\ startTime' = 1
    /\ endTime' = 3
    /\ UNCHANGED << optimization, call, storage, nextTaskId, now, remote >>

\* SettingsDialog calls onSave, which is setSettings: the settings effect
\* writes the snapshot, the polling effect runs again for the same tasks
SaveSettings(s) ==
    /\ settings' = s
    /\ storage' = [storage EXCEPT !.viva_settings = SettingsItem(s)]
    /\ timer' = PollingEffect(tasks)
    /\ lastOp' = Op("saveSettings", FALSE)
    /\ UNCHANGED << panelVars, characterVars, optimization, app, call, regenVars, tasks,
                    nextTaskId, now, ticks, remote, clipVars >>

\* what a running page does to its three records
RunningStep ==
    \/ \E s \in SettingsInputs : SaveSettings(s)
    \/ \E id \in 1..MaxTasks : DeleteTask(id)
    \/ TimerFire
    \/ \E k \in 1..MaxTicks : QueryResolved(k)
    \/ \E k \in 1..MaxTicks : QueryRejected(k)
    \/ \E m \in VideoModel : SetModel(m)
    \/ \E u \in CharacterUrlInputs : SetCharacterUrl(u)
    \/ HandleGenerate
    \/ CreateCharacterResolved

NextStore ==
    \/ StartApp
    \/ CloseApp
    \/ app = "running" /\ RunningStep
    \/ \E id \in 1..MaxTasks : RemoteAdvance(id)

SpecStore == InitStore /\ [][NextStore]_vars

----------------------------------------------------------------------------
(* Properties of the segment list and the target duration (SpecSegments) *)

Durations(segs) == [i \in 1..Len(segs) |-> segs[i].duration]

\* C1: an updateSegment on the 'duration' field, from a state where the sum of
\* the segment durations is at most the target, leaves the sum at most the
\* target, and the value stored for the edited segment is at most the target
\* minus the sum of the durations of the other segments.
C1_DurationEditWithinTarget ==
    [][ (lastOp'.op = "updateSegmentDuration"
            /\ SumDurations(storyboardSegments) <= duration)
        => /\ SumDurations(storyboardSegments') <= duration'
           /\ Len(storyboardSegments') = Len(storyboardSegments)
           /\ \A i \in 1..Len(storyboardSegments) :
                 \/ storyboardSegments'[i] = storyboardSegments[i]
                 \/ storyboardSegments'[i].duration
                        <= duration - SumDurations(
                               FilterOut(storyboardSegments, storyboardSegments[i].id))
      ]_vars

\* C1 witness: a typed value above the allowance was clamped in a list of
\* several segments, which now fills the target exactly
C1_Witness ==
    /\ lastOp = Op("updateSegmentDuration", TRUE)
    /\ Len(storyboardSegments) >= 2
    /\ totalSegmentDuration = duration

\* C3: with storyboard mode on, a step that takes the target duration below
\* the current sum of the segment durations leaves a segment list that is
\* not empty, with a duration sum above 0 and at most the new target.
C3_ShrinkKeepsValidList ==
    [][ (isStoryboardMode /\ isStoryboardMode'
            /\ duration' < SumDurations(storyboardSegments))
        => /\ Len(storyboardSegments') >= 1
           /\ SumDurations(storyboardSegments') > 0
           /\ SumDurations(storyboardSegments') <= duration'
      ]_vars

\* C3 witness: the target fell below the sum of a list of several segments
C3_Witness ==
    /\ lastOp = Op("targetChange", TRUE)
    /\ isStoryboardMode
    /\ duration = 10
    /\ totalSegmentDuration = 10
    /\ Len(storyboardSegments) >= 2

\* the durations before position i
PrefixSum(segs, i) == SumDurations(SubSeq(segs, 1, i - 1))

\* the replay as stated: every segment before the cumulative total reaches
\* the target is kept, truncated to what is left of the target
StatedReplay(segs, target) ==
    LET kept == { i \in 1..Len(segs) : PrefixSum(segs, i) < target } IN
    [i \in 1..Cardinality(kept) |->
        [segs[i] EXCEPT !.duration = Min(segs[i].duration,
                                        target - PrefixSum(segs, i))]]

\* the list is the replay, or the single full-target segment when the replay
\* is empty
IsReplayResult(result, replay, target) ==
    IF replay = <<>>
    THEN /\ Len(result) = 1
         /\ result[1].duration = target
         /\ result[1].description = <<>>
    ELSE result = replay

\* C4: when the target duration changes (storyboard mode on), the new list is
\* the replay of the old one: every segment before the cumulative total
\* reaches the new target is kept with its id and description, truncated to
\* (target - cumulative total), the later ones are dropped, and when no
\* segment remains the list is one segment with empty description and the
\* full new target; 5/5/5 under a change from 15 to 10 becomes 5/5.
C4_Stated ==
    [][ (lastOp'.op = "targetChange" /\ isStoryboardMode /\ duration' # duration)
        => /\ IsReplayResult(storyboardSegments',
                             StatedReplay(storyboardSegments, duration'), duration')
           /\ (Durations(storyboardSegments) = << 5, 5, 5 >>
                   /\ duration = 15 /\ duration' = 10)
               => Durations(storyboardSegments') = << 5, 5 >>
      ]_vars


----------------------------------------------------------------------------
(* Properties of the composed storyboard (SpecEditor) *)

\* C2: whenever a job-creation request is issued while storyboard mode is on,
\* from the edit view or from the preview view, the sum of the storyboard
\* segment durations equals the target duration sent in that request.
C2_RequestSumEqualsTarget ==
    lastOp = Op("createVideoTask", TRUE)
    => SumDurations(storyboardSegments) = generation.request.duration

\* the description holds a character that is not white space
NonBlank(description) ==
    \E k \in 1..Len(description) : ~IsWhitespace(description[k])

\* the sum of the durations equals the target and no description is blank
ValidStoryboard ==
    /\ SumDurations(storyboardSegments) = duration
    /\ \A i \in 1..Len(storyboardSegments) :
          NonBlank(storyboardSegments[i].description)

\* C5: the view goes from 'edit' to 'preview' only in a step of
\* handlePreviewAndOptimize taken when the sum of the segment durations
\* equals the target and every description is non-blank; a step of
\* handlePreviewAndOptimize taken otherwise leaves the view 'edit' and the
\* preview text unchanged, and sets an error.
C5_PreviewOnlyWhenValid ==
    [][ /\ (storyboardView = "edit" /\ storyboardView' = "preview")
            => (lastOp'.op = "handlePreviewAndOptimize" /\ ValidStoryboard)
        /\ (lastOp'.op = "handlePreviewAndOptimize" /\ ~ValidStoryboard)
            => /\ storyboardView' = "edit"
               /\ previewPrompt' = previewPrompt
               /\ error' # NoError
      ]_vars

\* C5 witness: the preview of a storyboard of several segments was built
C5_Witness ==
    /\ lastOp = Op("handlePreviewAndOptimize", TRUE)
    /\ storyboardView = "preview"
    /\ Len(storyboardSegments) >= 2
    /\ ValidStoryboard

\* the tag and text of segment k: the interval between the prefix sums
IntervalLine(segs, k) ==
    << "[" >> \o NumberToText(PrefixSum(segs, k)) \o << "s", "-" >>
        \o NumberToText(PrefixSum(segs, k + 1)) \o << "s", "]", " " >>
        \o segs[k].description

\* C6: the preview text built from segments with durations d1..dN is the
\* list, in segment order, of "[<d1+..+d(k-1)>s-<d1+..+dk>s] <description k>";
\* the first interval starts at 0, each starts where the previous one ends,
\* the last ends at the target; target 10 with 4 "A" and 6 "B" gives
\* "[0s-4s] A" followed by "[4s-10s] B".
C6_PreviewIntervals ==
    lastOp = Op("handlePreviewAndOptimize", TRUE)
    => /\ previewPrompt =
              Join([k \in 1..Len(storyboardSegments) |->
                        IntervalLine(storyboardSegments, k)], << "\n", "\n" >>)
       /\ PrefixSum(storyboardSegments, 1) = 0
       /\ PrefixSum(storyboardSegments, Len(storyboardSegments) + 1) = duration
       /\ (duration = 10
              /\ Durations(storyboardSegments) = << 4, 6 >>
              /\ storyboardSegments[1].description = << "A" >>
              /\ storyboardSegments[2].description = << "B" >>)
          => previewPrompt =
                 << "[", "0", "s", "-", "4", "s", "]", " ", "A", "\n", "\n",
                    "[", "4", "s", "-", "1", "0", "s", "]", " ", "B" >>

\* C6 witness: the preview of 4 "A" and 6 "B" under target 10 was built
C6_Witness ==
    /\ lastOp = Op("handlePreviewAndOptimize", TRUE)
    /\ duration = 10
    /\ Durations(storyboardSegments) = << 4, 6 >>
    /\ storyboardSegments[1].description = << "A" >>
    /\ storyboardSegments[2].description = << "B" >>

\* C7: a step of addSegment taken when the sum of the durations is at or
\* above the target leaves the list unchanged and sets an error; taken
\* otherwise it appends one segment with empty description and duration
\* min(5, target - sum), and leaves the existing segments unchanged.
C7_AddSegment ==
    [][ lastOp'.op = "addSegment"
        => IF SumDurations(storyboardSegments) >= duration
           THEN /\ storyboardSegments' = storyboardSegments
                /\ error' # NoError
           ELSE /\ Len(storyboardSegments') = Len(storyboardSegments) + 1
                /\ SubSeq(storyboardSegments', 1, Len(storyboardSegments))
                       = storyboardSegments
                /\ storyboardSegments'[Len(storyboardSegments')].description = <<>>
                /\ storyboardSegments'[Len(storyboardSegments')].duration
                       = Min(5, duration - SumDurations(storyboardSegments))
      ]_vars

\* C7 witness: a segment was added when less than 5 seconds of the target
\* were left, and it took what was left
C7_Witness ==
    /\ lastOp = Op("addSegment", FALSE)
    /\ Len(storyboardSegments) >= 2
    /\ storyboardSegments[Len(storyboardSegments)].duration = 4
    /\ totalSegmentDuration = duration

----------------------------------------------------------------------------
(* Properties of the task list under polling (SpecPoll) *)

\* the records of the same task before and after a step
SameTask(i, j) == tasks[i].id = tasks'[j].id

StatusRank(status) ==
    IF status = "pending" THEN 0 ELSE IF status = "processing" THEN 1 ELSE 2

\* C8: for every task, once completedAt holds a value no later store update
\* changes it, under any interleaving of polling ticks.
C8_CompletedAtAssignedOnce ==
    [][ \A i \in 1..Len(tasks), j \in 1..Len(tasks') :
          (SameTask(i, j) /\ tasks[i].completedAt # {})
          => tasks'[j].completedAt = tasks[i].completedAt
      ]_vars

\* C9: a task's local status only moves forward along pending -> processing
\* -> completed|failed, and once it is completed or failed no poll result
\* changes its status, output URL or failure reason.
C9_StatusMovesForward ==
    [][ \A i \in 1..Len(tasks), j \in 1..Len(tasks') :
          SameTask(i, j)
          => /\ StatusRank(tasks'[j].status) >= StatusRank(tasks[i].status)
             /\ tasks[i].status \in TerminalStatus
                => /\ tasks'[j].status = tasks[i].status
                   /\ tasks'[j].videoUrl = tasks[i].videoUrl
                   /\ tasks'[j].failureReason = tasks[i].failureReason
      ]_vars

\* C10: no status query is issued for a task whose locally held status is
\* completed or failed at the moment the query is issued.
C10_NoQueryForTerminalTask ==
    lastOp.op = "queryVideoTask" => ~lastOp.flag

\* the status a response carries: the flat field, else the one of the detail
ResponseStatus(res) ==
    IF res.status # {} THEN res.status ELSE UNION { d.status : d \in res.detail }

\* the output URL a response carries, if any
ResponseUrl(res) ==
    IF res.video_url # {} THEN res.video_url
    ELSE UNION { d.video_url : d \in res.detail }

\* C11: when a status query resolves for a task whose stored record is not
\* terminal and the response carries completed or failed, the stored record
\* then has that status, the response's output URL as videoUrl, and
\* completedAt equal to the response's status_update_time when it has one
\* and to the local clock otherwise; a response that carries another status
\* never assigns a completion time.
C11_TerminalMerge ==
    [][ \A k \in 1..MaxTicks :
          QueryResolved(k)
          => LET tick == ticks[k]
                 res == tick.res
                 id == tick.pendingTasks[tick.i].id
             IN \A i \in 1..Len(tasks) :
                  tasks[i].id = id
                  => IF ResponseStatus(res) \subseteq TerminalStatus
                        /\ ResponseStatus(res) # {}
                     THEN tasks[i].status \notin TerminalStatus
                          => /\ ResponseStatus(res) = {tasks'[i].status}
                             /\ tasks'[i].videoUrl = ResponseUrl(res)
                             /\ tasks'[i].completedAt
                                  = IF res.status_update_time # {}
                                    THEN res.status_update_time ELSE {now}
                     ELSE \/ tasks'[i].completedAt = {}
                          \/ tasks'[i].completedAt = tasks[i].completedAt
      ]_vars

\* C11 witness: a completed response carrying an update time older than the
\* local clock has been merged: the record is completed, has the output URL
\* and the completion time of the service
C11_Witness ==
    \E i \in 1..Len(tasks) :
        /\ tasks[i].status = "completed"
        /\ tasks[i].videoUrl = {"https://x/y.mp4"}
        /\ tasks[i].completedAt = remote[tasks[i].id].updateTime
        /\ tasks[i].completedAt # {now}

\* C12: when a status query fails, the task list is left exactly as it was,
\* the tick goes on (the error does not end it): it queries the next task of
\* its snapshot when there is one, and a task that is still pending stays in
\* the snapshot of the armed interval, so that a later tick queries it again.
C12_FailedQueryLeavesTask ==
    [][ \A k \in 1..MaxTicks :
          QueryRejected(k)
          => LET tick == ticks[k]
                 id == tick.pendingTasks[tick.i].id
             IN /\ tasks' = tasks
                /\ storage' = storage
                /\ IF tick.i < Len(tick.pendingTasks)
                   THEN /\ Len(ticks') = Len(ticks)
                        /\ ticks'[k].pendingTasks = tick.pendingTasks
                        /\ ticks'[k].i = tick.i + 1
                   ELSE Len(ticks') = Len(ticks) - 1
                /\ (\E i \in 1..Len(tasks') :
                        tasks'[i].id = id /\ tasks'[i].status \notin TerminalStatus)
                   => /\ timer'.active
                      /\ \E j \in 1..Len(timer'.pendingTasks) :
                            timer'.pendingTasks[j].id = id
      ]_vars

\* C12 witness: the query for the first task of a tick failed, the task is
\* still pending as before and the tick is querying its second task
C12_Witness ==
    /\ lastOp.rejected
    /\ lastOp.op = "queryVideoTask"
    /\ \E k \in 1..Len(ticks) :
          /\ ticks[k].i = 2
          /\ \E i \in 1..Len(tasks) :
                /\ tasks[i].id = ticks[k].pendingTasks[1].id
                /\ tasks[i] = ticks[k].pendingTasks[1]
    /\ timer.active

----------------------------------------------------------------------------
(* The API client alone: every function of it, called once for every outcome
   of fetch. *)

OptimizeModes == { "text", "script" }

InitClient ==
    /\ model = SORA_2
    /\ duration = 10
    /\ size = "small"
    /\ prompt = <<>>
    /\ isStoryboardMode = FALSE
    /\ storyboardView = "edit"
    /\ storyboardSegments = << [id |-> 1, duration |-> 5, description |-> <<>>] >>
    /\ previewPrompt = <<>>
    /\ batchCount = 1
    /\ isGenerating = FALSE
    /\ error = NoError
    /\ generation = Idle
    /\ settings = [baseUrl |-> "https://www.vivaapi.cn", apiKey |-> "key"]
    /\ tasks = <<>>
    /\ nextTaskId = 1
    /\ now = 1
    /\ timer = NoTimer
    /\ ticks = <<>>
    /\ remote = [id \in 1..MaxTasks |-> QueuedJob("flat")]
    /\ savedCharacters = <<>>
    /\ characterUrl = <<>>
    /\ createdCharacter = {}
    /\ optimization = Idle
    /\ storage = Persisted(settings, tasks, savedCharacters)
    /\ app = "running"
    /\ \E outcome \in FetchOutcomes :
          \/ \E mode \in OptimizeModes, text \in PromptInputs :
                call = ClientCall("optimizePrompt", mode, text, outcome)
          \/ \E fn \in { "createVideoTask", "createCharacter", "queryVideoTask" } :
                call = ClientCall(fn, "text", <<>>, outcome)
    /\ autoGenTriggered = FALSE
    /\ autoGen = NoAutoGen
    /\ startTime = 1
    /\ endTime = 3
    /\ lastOp = NoOp

NextClient ==
    \/ OptimizePromptSettles
    \/ CreateVideoTaskSettles
    \/ CreateCharacterSettles
    \/ QueryVideoTaskSettles

SpecClient == InitClient /\ [][NextClient]_vars

----------------------------------------------------------------------------
(* Properties of the API client (SpecClient) *)

\* the fetch outcome is a failure for optimizePrompt: a network error, a
\* non-success response, or a success response without usable content
OptimizeFailed(outcome) ==
    \/ outcome.kind = "rejected"
    \/ ~ResponseOk(outcome.response)
    \/ outcome.response.body.doc = NoDoc
    \/ \A d \in outcome.response.body.doc : d.content = {} \/ d.content = {<<>>}

\* C13: optimizePrompt in the 'text' mode never throws: on a failure it
\* returns the input text unchanged, on success the rewritten text.
C13_TextModeNeverThrows ==
    (call.phase = "settled" /\ call.fn = "optimizePrompt" /\ call.mode = "text")
    => /\ call.result.kind = "return"
       /\ IF OptimizeFailed(call.outcome)
          THEN call.result.value = call.prompt
          ELSE \E d \in call.outcome.response.body.doc :
                  {call.result.value} = d.content

----------------------------------------------------------------------------
(* Properties of the generate action (SpecSubmit) *)

\* C14: when a job-creation or character-creation request of a generate
\* action fails, an error is displayed, the action ends without a further
\* request, the task list and the character list (and their snapshots) are
\* unchanged, and isGenerating is false again, the generate button enabled.
C14_FailedRequestAborts ==
    [][ \A o \in CreateFailures :
          (CreateVideoTaskRejected(o) \/ CreateCharacterRejected(o))
          => /\ error' # NoError
             /\ generation' = Idle
             /\ nextTaskId' = nextTaskId
             /\ tasks' = tasks
             /\ savedCharacters' = savedCharacters
             /\ storage' = storage
             /\ ~isGenerating'
             /\ GenerateButton'
      ]_vars

\* C14 witness: the second request of a batch of two failed after the first
\* had created a job: no task was added, the error is shown, the panel is
\* idle again
C14_Witness ==
    /\ nextTaskId = 2
    /\ tasks = <<>>
    /\ error = CorsHint
    /\ generation = Idle
    /\ ~isGenerating

\* C15: the job-creation requests of one generate action go out one after
\* the other: a request is in flight only while the call awaits
\* createVideoTask, every earlier request has been answered by then, never
\* more than batchCount requests go out, and when none fails the action ends
\* with exactly batchCount requests sent and batchCount tasks added.
C15_SequentialBatch ==
    /\ [](generation.phase \in { "createVideoTask", "delay" }
            => /\ generation.issued <= generation.batchCount
               /\ generation.issued - Len(generation.taskIds)
                    = IF generation.phase = "createVideoTask" THEN 1 ELSE 0)
    /\ [][ (generation.phase = "createVideoTask" /\ tasks' # tasks)
            => /\ generation.issued = generation.batchCount
               /\ Len(tasks') = Len(tasks) + generation.batchCount
          ]_vars

\* C15 witness: a batch of two has ended, both tasks are in the list
C15_Witness ==
    /\ batchCount = 2
    /\ Len(tasks) = 2
    /\ generation = Idle
    /\ ~isGenerating

\* the status of the stored record of the task, as a set (empty when the task
\* is not in the list)
LocalStatus(id) ==
    { tasks[i].status : i \in { j \in 1..Len(tasks) : tasks[j].id = id } }

\* C16: for a task in the list, once the remote service answers its status
\* queries with completed or failed, and queries succeed again and again,
\* the stored status eventually is that status, however long the job took and
\* however many polls came before.
C16_EventuallyConsistent ==
    \A id \in 1..MaxTasks :
        (LocalStatus(id) # {} /\ remote[id].status \in TerminalStatus)
        ~> (LocalStatus(id) = {remote[id].status})

\* C16 witness: every job has ended, every stored status is the one of the
\* service, and polling has stopped
C16_Witness ==
    /\ \A i \in 1..Len(tasks) :
          /\ tasks[i].status \in TerminalStatus
          /\ tasks[i].status = remote[tasks[i].id].status
    /\ Len(tasks) = MaxTasks
    /\ ~timer.active
    /\ ticks = <<>>

----------------------------------------------------------------------------
(* The durations of the segments (SpecSegments) *)

\* C20: in every reachable state every storyboard segment has a duration of
\* at least 1, whatever duration edits, additions, removals and changes of
\* the target duration came before.
C20_SegmentDurationsPositive ==
    \A i \in 1..Len(storyboardSegments) : storyboardSegments[i].duration >= 1

----------------------------------------------------------------------------
(* Error translation of the API client (SpecClient) *)

\* the messages the translation of a failed request may carry: the hint
\* for a network failure, the hint for a 404, else error.message of the
\* body, else its top-level message, else a text with the status code
TranslatedMessages(outcome) ==
    LET r == outcome.response
        d == CHOOSE x \in r.body.doc : TRUE
    IN IF outcome.kind = "rejected" THEN {CorsHint}
       ELSE IF r.status = 404 THEN {NotFoundHint}
       ELSE IF r.body.doc # NoDoc /\ d.error_message \notin {{}, {""}}
       THEN d.error_message
       ELSE IF r.body.doc # NoDoc /\ d.message \notin {{}, {""}}
       THEN d.message
       ELSE { "Request failed: " \o StatusText(r.status),
              "Request failed: " \o StatusText(r.status) \o " - " \o r.body.text }

\* fetch failed at the network level or the response is not a success
RequestFailed(outcome) ==
    outcome.kind = "rejected" \/ ~ResponseOk(outcome.response)

\* C19: a call of createVideoTask, createCharacter or queryVideoTask whose
\* request failed throws the translated error: the connectivity/CORS hint
\* when fetch failed at the network level, the configuration hint for a 404,
\* and for another non-success response the body's error.message, else its
\* top-level message, else a message with the status code.
C19_TranslatedErrorSurfaced ==
    (/\ call.phase = "settled"
     /\ call.fn \in { "createVideoTask", "createCharacter", "queryVideoTask" }
     /\ RequestFailed(call.outcome))
    => /\ call.result.kind = "throw"
       /\ call.result.error.message \in TranslatedMessages(call.outcome)

----------------------------------------------------------------------------
(* Properties of the persisted snapshots (SpecStore) *)

\* the three snapshots are those of the in-memory records
SnapshotsCurrent == storage = Persisted(settings, tasks, savedCharacters)

\* opening the page on the three snapshots gives the in-memory records
ReloadRestores ==
    /\ InitialSettings(storage.viva_settings) = {settings}
    /\ InitialTasks(storage.viva_tasks) = {tasks}
    /\ InitialCharacters(storage.viva_characters) = {savedCharacters}

\* a record that a step of the running page leaves alone keeps its snapshot
OtherSnapshotsKept ==
    (app = "running" /\ app' = "running")
    => /\ settings' = settings => storage'.viva_settings = storage.viva_settings
       /\ tasks' = tasks => storage'.viva_tasks = storage.viva_tasks
       /\ savedCharacters' = savedCharacters
             => storage'.viva_characters = storage.viva_characters

\* C17: while the page runs, after every change to the settings, the task
\* list or the character list, each of the three snapshots in localStorage is
\* the serialisation of the whole in-memory record; a step that changes one
\* record leaves the snapshots of the other two as they were; and opening the
\* page on the three snapshots yields the same settings, task list and
\* character list.
C17_SnapshotsFollowRecords ==
    /\ [](app = "running" => SnapshotsCurrent /\ ReloadRestores)
    /\ [][OtherSnapshotsKept]_vars

\* C17 witness: the page was opened again on snapshots written after the
\* settings were saved, a polled task got its result (optional members
\* written) and a character was saved, and holds those records
C17_Witness ==
    /\ app = "running"
    /\ lastOp = Op("startApp", FALSE)
    /\ settings.baseUrl = "https://proxy.example"
    /\ Len(tasks) = 1 /\ tasks[1].status = "completed" /\ tasks[1].completedAt # {}
    /\ Len(savedCharacters) = 1
    /\ storage.viva_settings = SettingsItem(settings)

\* a snapshot that is not the serialisation of a record: a text JSON.parse
\* rejects, or a JSON text of another shape
Malformed(item) == item.kind \in {"invalid", "null"}

\* C18: when the page is opened, a malformed snapshot under any of the three
\* keys is dropped and its record starts from the default (default base URL
\* and empty API key, no task, no character), a record whose snapshot is
\* well formed or absent is loaded as usual, and the page starts.
C18_MalformedSnapshotDiscarded ==
    [][ StartApp
        => /\ app' = "running"
           /\ Malformed(storage.viva_settings) => settings' = DefaultSettings
           /\ Malformed(storage.viva_tasks) => tasks' = <<>>
           /\ Malformed(storage.viva_characters) => savedCharacters' = <<>>
           /\ ~Malformed(storage.viva_settings)
                 => {settings'} = InitialSettings(storage.viva_settings)
           /\ ~Malformed(storage.viva_tasks)
                 => {tasks'} = InitialTasks(storage.viva_tasks)
           /\ ~Malformed(storage.viva_characters)
                 => {savedCharacters'} = InitialCharacters(storage.viva_characters)
      ]_vars

----------------------------------------------------------------------------
(* Submission from the preview view (SpecEditor) *)

\* C21: a generate click in the preview view, with an API key and a preview
\* text that is not blank, issues the job-creation request whatever the
\* segment list holds, and the prompt of the request is the preview text of
\* that moment with every blank-line separator replaced by '; ', every
\* remaining line break by a space, and trimmed.
C21_PreviewTextSubmitted ==
    [][ (HandleGenerate /\ PreviewViewShown
            /\ settings.apiKey # "" /\ Trim(previewPrompt) # <<>>)
        => /\ generation'.phase = "createVideoTask"
           /\ generation'.request.prompt
                 = Trim(ReplaceLineBreaks(ReplaceBlankLines(previewPrompt)))
      ]_vars

\* C21 witness: a request is out that was submitted from the preview view
\* after the text was edited to one with a blank line and a line break, while
\* the segment list no longer adds up to the target
C21_Witness ==
    /\ generation.phase = "createVideoTask"
    /\ PreviewViewShown
    /\ previewPrompt = << "X", "\n", "\n", "Y", "\n", "Z", "\n" >>
    /\ generation.request.prompt = << "X", ";", " ", "Y", " ", "Z" >>
    /\ totalSegmentDuration # duration

----------------------------------------------------------------------------
(* Properties of the merge of a poll result (SpecPoll) *)

\* the record the task list holds for the task the k-th running tick queries
LocalRecord(k) == { tasks[i] : i \in { j \in 1..Len(tasks) : tasks[j].id = QueriedId(k) } }

\* the status a response gives a record: completed, failed and processing
\* are taken over, anything else leaves the status of the record
NormalizedStatus(res, status) ==
    IF ResponseStatus(res) \subseteq {"completed", "failed", "processing"}
       /\ ResponseStatus(res) # {}
    THEN CHOOSE s \in ResponseStatus(res) : TRUE
    ELSE status

\* the normalized status, the output URL and the progress of the response
\* are those of the record
SameAsRecord(res, t) ==
    /\ NormalizedStatus(res, t.status) = t.status
    /\ ResponseUrl(res) = t.videoUrl
    /\ UNION { d.progress_pct : d \in res.detail } = t.progress

\* C22: when a status query resolves with a response whose normalized status,
\* output URL and progress equal those of the record the task list holds for
\* the task, no store update is issued: the task list and its snapshot stay
\* as they are, and the polling interval is not cleared and set again.
C22_UnchangedPollLeavesStore ==
    [][ \A k \in 1..MaxTicks :
          (QueryResolved(k)
             /\ \E t \in LocalRecord(k) : SameAsRecord(ticks[k].res, t))
          => /\ ~lastOp'.updated
             /\ tasks' = tasks
             /\ storage' = storage
             /\ timer' = timer
      ]_vars

\* the k-th running tick settles in this step
TickSettles(k) == QueryResolved(k) \/ QueryRejected(k)

\* C23: a running tick has one status query in flight, for the task at its
\* position in the task list of its snapshot.  Queries are issued in the
\* order of that list: a tick's first query is for the first task, when the
\* interval fires, and its query for task i+1 is issued in the step in which
\* its query for task i settles, after the merge of that result (the store
\* update, if any, is made by that step); no other step issues a query.
C23_SequentialQueries ==
    [][ /\ \A k \in 1..Len(ticks') :
              \/ \E j \in 1..Len(ticks) : ticks'[k] = ticks[j]
              \/ /\ TimerFire
                 /\ k = Len(ticks) + 1
                 /\ ticks'[k].i = 1
              \/ /\ k \in 1..Len(ticks)
                 /\ TickSettles(k)
                 /\ ticks'[k].pendingTasks = ticks[k].pendingTasks
                 /\ ticks'[k].i = ticks[k].i + 1
        /\ \A k \in 1..MaxTicks :
              QueryResolved(k)
              => /\ lastOp'.updated
                    = PollChanged(ticks[k].pendingTasks[ticks[k].i], ticks[k].res)
                 /\ (ticks[k].i = Len(ticks[k].pendingTasks)
                        => Len(ticks') = Len(ticks) - 1)
      ]_vars

\* C23 witness: a tick is querying the second task of its snapshot, and the
\* step that issued this query merged the result for the first task
C23_Witness ==
    /\ lastOp.op = "queryVideoTask"
    /\ lastOp.updated
    /\ \E k \in 1..Len(ticks) :
          /\ ticks[k].i = 2
          /\ \E i \in 1..Len(tasks) :
                /\ tasks[i].id = ticks[k].pendingTasks[1].id
                /\ tasks[i].status # ticks[k].pendingTasks[1].status

----------------------------------------------------------------------------
(* Properties of the polling interval (SpecStore) *)

\* the task is polled: its status is pending or processing
Polled(t) == t.status \in {"pending", "processing"}

\* C24: there is one polling interval at most, and it is set exactly when
\* the task list holds a pending or processing task; it was set for the
\* current task list, so every change of the task list or of the settings
\* has cleared the interval set before and, when something is left to poll,
\* set a new one.
C24_OneIntervalWhilePending ==
    /\ timer.active <=> \E i \in 1..Len(tasks) : Polled(tasks[i])
    /\ timer.active => timer.pendingTasks = SelectSeq(tasks, Polled)
    /\ ~timer.active => timer.pendingTasks = <<>>

\* C24 witness: the poll that merged the completed result of the only
\* polled task cleared the interval, and no new one was set
C24_Witness ==
    /\ app = "running"
    /\ lastOp.updated
    /\ Len(tasks) = 1
    /\ tasks[1].status = "completed"
    /\ ~timer.active

----------------------------------------------------------------------------
(* Properties of the store update (SpecPoll) *)

\* C25: the store update a poll result issues for task id X keeps the length
\* and the order of the task list, leaves every record with another id as it
\* was, and changes nothing when no record has id X: a task deleted while
\* its query was in flight is not added again.
C25_ReplaceById ==
    [][ \A k \in 1..MaxTicks :
          QueryResolved(k)
          => /\ Len(tasks') = Len(tasks)
             /\ \A i \in 1..Len(tasks) :
                   /\ tasks'[i].id = tasks[i].id
                   /\ tasks[i].id # QueriedId(k) => tasks'[i] = tasks[i]
             /\ (\A i \in 1..Len(tasks) : tasks[i].id # QueriedId(k))
                   => tasks' = tasks
      ]_vars

\* C25 witness: a store update was issued for a task that had been deleted
\* while its query was in flight; the list holds the other task only, as it
\* was created
C25_Witness ==
    /\ lastOp.updated
    /\ nextTaskId = 3
    /\ Len(tasks) = 1
    /\ tasks[1] \in { SavedTasks(2)[i] : i \in 1..2 }

----------------------------------------------------------------------------
(* Properties of the status normalization (SpecMerge) *)

\* a text field of the response is present: it has a value, not the empty one
Present(x) == x # {} /\ x # {""}

\* the field of the nested detail object, when the response has one
Nested(res, field) == UNION { d[field] : d \in res.detail }

\* the flat field when it is present, otherwise the nested one
FlatElseNested(flat, nested) ==
    IF Present(flat) THEN flat ELSE IF Present(nested) THEN nested ELSE {}

\* C26: when a status query resolves, the status used is the flat status
\* field when it is present (not empty) and the status of the nested detail
\* otherwise; when it is completed, failed or processing the record then has
\* that status, and with any other or no value the record keeps its status.
\* The output URL the record gets is the flat video_url when present and the
\* nested one otherwise.
C26_StatusNormalization ==
    [][ QueryResolved(1)
        => LET res == ticks[1].res
               used == FlatElseNested(res.status, Nested(res, "status"))
           IN /\ Len(tasks') = 1
              /\ tasks'[1].status
                    = IF used \in { {"completed"}, {"failed"}, {"processing"} }
                      THEN CHOOSE s \in used : TRUE
                      ELSE tasks[1].status
              /\ tasks'[1].videoUrl
                    = FlatElseNested(res.video_url, Nested(res, "video_url"))
      ]_vars

\* C26 witness: a response without a flat video_url has been merged: the
\* record is processing and holds the URL and the progress of the nested
\* detail
C26_Witness ==
    /\ lastOp.updated
    /\ ticks = <<>>
    /\ tasks[1].status = "processing"
    /\ tasks[1].videoUrl = {"https://x/nested.mp4"}
    /\ tasks[1].progress = {50}

----------------------------------------------------------------------------
(* Regenerate *)

\* the step in which the call scheduled by Regenerate sends its first
\* job-creation request
AutoRequestIssued ==
    AutoGenerate /\ autoGen'.phase = "createVideoTask"

\* C27: when Regenerate is pressed on a task, the job-creation request of
\* the call it schedules carries the prompt and the model of that task,
\* whatever prompt and model the panel held when the button was pressed.
C27_RegenerateCarriesTask ==
    [][AutoRequestIssued =>
          /\ autoGen'.request.prompt = autoGen.task.prompt
          /\ autoGen'.request.model = autoGen.task.model]_vars

\* C28: while the requests of one handleGenerate call are outstanding, no
\* other handleGenerate call, started by the generate button or by the
\* timeout Regenerate schedules, sends a creation request.
C28_OneGenerateInProgress ==
    [][/\ (AutoGenerate /\ autoGen'.phase \in Outstanding)
             => generation.phase \notin Outstanding
       /\ (HandleGenerate /\ generation'.phase \in Outstanding)
             => autoGen.phase \notin Outstanding]_vars

----------------------------------------------------------------------------
(* The storyboard and the target *)

\* C29: whenever storyboard mode is on, the segment list is not empty and
\* the sum of the segment durations is at most the target duration, after
\* any sequence of duration edits, additions, removals, target changes,
\* model changes and mode toggles, target changes made with the mode off
\* included.
C29_StoryboardWithinTarget ==
    isStoryboardMode =>
        /\ Len(storyboardSegments) >= 1
        /\ totalSegmentDuration <= duration

\* C29 witness: the mode has been switched on over a list that exceeded the
\* target, lowered while the mode was off; the list now fits the target
C29_Witness ==
    /\ lastOp = Op("toggleStoryboardMode", TRUE)
    /\ isStoryboardMode
    /\ Len(storyboardSegments) >= 1
    /\ totalSegmentDuration <= duration

----------------------------------------------------------------------------
(* The clip range of a character *)

\* a click on the generate button would send a character-creation request
CharacterRequestPossible ==
    /\ model = SORA_2_CHARACTERS
    /\ GenerateButton
    /\ settings.apiKey # ""
    /\ characterUrl # <<>>

\* C30: in every state in which a character-creation request can be issued,
\* the start time is in 0..7 and the end time is 1 to 3 seconds after it,
\* after any sequence of start-time and end-time selections.
C30_ClipRangeValid ==
    CharacterRequestPossible =>
        /\ startTime \in 0..7
        /\ 1 <= endTime - startTime
        /\ endTime - startTime <= 3

\* C30 witness: a start time was selected that the end time did not fit,
\* the effect has reset the end time, and the request can be sent
C30_Witness ==
    /\ lastOp = Op("setStartTime", TRUE)
    /\ CharacterRequestPossible
    /\ startTime = 7
    /\ endTime = 8

====
